---- MODULE Spec2Model ----
(***************************************************************************)
(* Model of the resolution-source scraping subsystem: the orchestrator     *)
(* (resolution_scraper/orchestrator.py) with its TTL cache, its            *)
(* concurrency gate and its per-URL adapter walk with retries, and the     *)
(* adapters' can_handle / fetch contracts (resolution_scraper/adapters).   *)
(*                                                                         *)
(* asyncio runs one coroutine at a time and switches only at an await, so  *)
(* every action below is the code between two awaits of one coroutine.     *)
(***************************************************************************)
EXTENDS Integers, Sequences, FiniteSets, TLC

(* ------------------------------ bounds --------------------------------- *)
\* scrape_url calls (one per URL of a batch) over the life of the instance
NumTasks == 3
\* scrape_question_sources calls over the life of the instance
NumBatches == 2
\* last value of the wall clock read by time.time()
MaxTime == 1
\* pieces of a question text
MaxPieces == 5
\* nodes of a JSON payload, for the payloads that are enumerated
MaxPayload == 4
MaxColumns == 3
MaxCell == 3
\* lines after the header of a CSV body
MaxRecords == 2
\* signals handed to format_resolution_snapshot
MaxSignals == 4

Tasks == 1..NumTasks
Batches == 1..NumBatches

(* --------------------------- Python values ----------------------------- *)
\* None, where a str | None is expected
None == "<None>"
\* truthiness of a str | None, as in `result.error or fallback_error`
Truthy(s) == s # None /\ s # ""

(* ------------------------------- URLs ---------------------------------- *)
UrlWiki == "https://en.wikipedia.org/wiki/Python"
UrlWikiBare == "https://wikipedia.org/wiki/Python"
UrlApi == "https://x.org/api/stats"
UrlCsv == "https://x.org/data.csv"
UrlHtml == "https://x.org/page"
UrlWikiApiCsv == "https://en.wikipedia.org/api/t.csv"
UrlBad == "http://[bad"

AllUrls == {UrlWiki, UrlWikiBare, UrlApi, UrlCsv, UrlHtml, UrlWikiApiCsv, UrlBad}

\* The parts of a URL are sequences of tokens, cut so that every substring
\* the code looks for ("wikipedia.org", ".json", "api", "format=json", ...)
\* is a token wherever it occurs.
Url(netloc, path, query) ==
    [raises |-> FALSE, netloc |-> netloc, path |-> path, query |-> query]
\* urlparse raises ValueError ("Invalid IPv6 URL")
Unparsable == [raises |-> TRUE, netloc |-> <<>>, path |-> <<>>, query |-> <<>>]

\* urllib.parse.urlparse on the URLs above
urlsplit(url) ==
    CASE url = UrlWiki       -> Url(<<"en", ".", "wikipedia.org">>, <<"/wiki", "/Python">>, <<>>)
      [] url = UrlWikiBare   -> Url(<<"wikipedia.org">>, <<"/wiki", "/Python">>, <<>>)
      [] url = UrlApi        -> Url(<<"x.org">>, <<"/", "api", "/stats">>, <<>>)
      [] url = UrlCsv        -> Url(<<"x.org">>, <<"/data", ".csv">>, <<>>)
      [] url = UrlHtml       -> Url(<<"x.org">>, <<"/page">>, <<>>)
      [] url = UrlWikiApiCsv -> Url(<<"en", ".", "wikipedia.org">>, <<"/", "api", "/t", ".csv">>, <<>>)
      [] OTHER               -> Unparsable

\* str.lower on a token
LowerToken(tok) ==
    CASE tok = "EN"            -> "en"
      [] tok = "WIKIPEDIA.ORG" -> "wikipedia.org"
      [] tok = "/DATA"         -> "/data"
      [] tok = ".CSV"          -> ".csv"
      [] tok = "FORMAT=JSON"   -> "format=json"
      [] tok = "Total"         -> "total"
      [] tok = "COUNT"         -> "count"
      [] OTHER                 -> tok

\* str.lower
Lower(s) == [i \in 1..Len(s) |-> LowerToken(s[i])]

\* `sub in s`, for a sub of one token or of two
Contains(s, sub) ==
    \E i \in 1..(Len(s) - Len(sub) + 1) :
        \A k \in 1..Len(sub) : s[i + k - 1] = sub[k]

\* s.endswith(suffix), for a suffix of one token
EndsWith(s, suffix) == s # <<>> /\ s[Len(s)] = suffix

\* What the adapters read of a parsed URL: whether the lowered netloc
\* contains "wikipedia.org" / ".wikipedia.org", whether the lowered path
\* ends with ".json" or contains "api" or the lowered query contains
\* "format=json", and whether the lowered path ends with ".csv".
Facts(p) ==
    [raises       |-> p.raises,
     wikipedia    |-> Contains(Lower(p.netloc), <<"wikipedia.org">>),
     dotwikipedia |-> Contains(Lower(p.netloc), <<".", "wikipedia.org">>),
     json         |-> \/ EndsWith(Lower(p.path), ".json")
                      \/ Contains(Lower(p.path), <<"api">>)
                      \/ Contains(Lower(p.query), <<"format=json">>),
     csv          |-> EndsWith(Lower(p.path), ".csv")]

Parsed == [u \in AllUrls |-> Facts(urlsplit(u))]

\* urlparse and what the adapters read of its result
urlparse(url) == Parsed[url]

(* ------------------------------ results -------------------------------- *)
ScrapeResult(url, ok, signals, error) ==
    [url |-> url, ok |-> ok, signals |-> signals, error |-> error]

ResolutionSignal(url, metric, parser, confidence) ==
    [url |-> url, metric |-> metric, parser |-> parser, confidence |-> confidence]

\* no result yet (the variable is unbound in the code)
NoResult == ScrapeResult("", FALSE, <<>>, None)

(* ------------------------------ adapters ------------------------------- *)
WikipediaAdapter == "wikipedia_api"
JsonApiAdapter == "json_api"
CsvAdapter == "csv"
StaticHtmlAdapter == "html_static"
BrowserAdapter == "browser_playwright"
\* a SourceAdapter subclass supplied by the caller; it keeps the base name
CustomAdapter == "base"

\* the adapters whose can_handle calls urlparse
ParsingAdapters == {WikipediaAdapter, JsonApiAdapter, CsvAdapter}

\* can_handle raises: the exception of urlparse is not caught
CanHandleRaises(adapter, url) ==
    adapter \in ParsingAdapters /\ urlparse(url).raises

\* can_handle of each adapter, where it returns, on what it reads of the
\* parsed URL
Handles(adapter, f) ==
    CASE adapter = WikipediaAdapter  -> f.wikipedia
      [] adapter = JsonApiAdapter    -> f.json
      [] adapter = CsvAdapter        -> f.csv
      [] adapter = StaticHtmlAdapter -> TRUE
      [] adapter = BrowserAdapter    -> TRUE
      [] OTHER                       -> TRUE

\* can_handle of each adapter, where it returns
CanHandle(adapter, url) == Handles(adapter, urlparse(url))

\* What the source answers to one fetch:
\*   "error"    connection failure or non-success HTTP status
\*   "timeout"  the request or the render runs into its timeout
\*   "nodata"   a response without an extractable number
\*   "number"   a response with an extractable number
\* and, for a caller-supplied adapter only,
\*   "empty"    it reports ok = True with no signal
\*   "silent"   it reports ok = False with no error text
BuiltinResponses == {"error", "timeout", "nodata", "number"}
Responses(adapter) ==
    IF adapter = CustomAdapter THEN BuiltinResponses \cup {"empty", "silent"}
                               ELSE BuiltinResponses

HttpErrorText == "HTTP error"
\* str() of an httpx timeout exception raised without a message
TimeoutText == ""

Raised(msg) == [raised |-> TRUE, msg |-> msg, result |-> NoResult]
Returned(result) == [raised |-> FALSE, msg |-> "", result |-> result]
Failure(url, error) == Returned(ScrapeResult(url, FALSE, <<>>, error))
Success(url, metric, parser, confidence) ==
    Returned(ScrapeResult(url, TRUE,
                          <<ResolutionSignal(url, metric, parser, confidence)>>, None))

\* httpx raising inside `async with httpx.AsyncClient(...)`: nothing in the
\* fetch of the four HTTP adapters catches it
HttpxFetch(url, resp, nodataError, metric, parser, confidence) ==
    CASE resp = "error"   -> Raised(HttpErrorText)
      [] resp = "timeout" -> Raised(TimeoutText)
      [] resp = "number"  -> Success(url, metric, parser, confidence)
      [] OTHER            -> Failure(url, nodataError)

WikipediaFetch(url, resp) ==
    IF ~urlparse(url).dotwikipedia
    THEN Failure(url, "Unsupported Wikipedia host format.")
    ELSE HttpxFetch(url, resp,
                    "Could not find article statistics in MediaWiki response.",
                    "wikipedia_article_count_en", WikipediaAdapter, "medium")

JsonApiFetch(url, resp) ==
    HttpxFetch(url, resp, "No numeric value found in JSON payload.",
               "json_numeric_value", JsonApiAdapter, "medium")

CsvFetch(url, resp) ==
    HttpxFetch(url, resp, "No numeric column found in final CSV row.",
               "csv_total", CsvAdapter, "medium")

StaticHtmlFetch(url, resp) ==
    HttpxFetch(url, resp, "No parseable number found in static HTML text.",
               "html_detected_value", StaticHtmlAdapter, "low")

\* the browser adapter wraps the render in try/except and returns failures
BrowserFetch(url, resp) ==
    CASE resp = "error"   -> Failure(url, "Playwright browser parse failed: " \o HttpErrorText)
      [] resp = "timeout" -> Failure(url, "Playwright timed out while rendering page.")
      [] resp = "number"  -> Success(url, "browser_detected_value", BrowserAdapter, "low")
      [] OTHER            -> Failure(url, "No parseable number found after browser render.")

\* any implementation of the abstract fetch
CustomFetch(url, resp) ==
    CASE resp = "error"   -> Raised(HttpErrorText)
      [] resp = "timeout" -> Raised(TimeoutText)
      [] resp = "number"  -> Success(url, "custom_value", CustomAdapter, "low")
      [] resp = "empty"   -> Returned(ScrapeResult(url, TRUE, <<>>, None))
      [] resp = "silent"  -> Failure(url, None)
      [] OTHER            -> Failure(url, "custom failure")

\* adapter.fetch(request)
Fetch(adapter, url, resp) ==
    CASE adapter = WikipediaAdapter  -> WikipediaFetch(url, resp)
      [] adapter = JsonApiAdapter    -> JsonApiFetch(url, resp)
      [] adapter = CsvAdapter        -> CsvFetch(url, resp)
      [] adapter = StaticHtmlAdapter -> StaticHtmlFetch(url, resp)
      [] adapter = BrowserAdapter    -> BrowserFetch(url, resp)
      [] OTHER                       -> CustomFetch(url, resp)

(* ------------------------------- state --------------------------------- *)
VARIABLES
    config,     \* ScraperConfig of the instance
    adapters,   \* self.adapters, the chain
    sem,        \* self._semaphore._value
    waiters,    \* self._semaphore._waiters, oldest first
    cache,      \* self._cache: url -> [expires_at, result]
    now,        \* time.time()
    task,       \* the scrape_url coroutines
    batch,      \* the scrape_question_sources calls
    given,      \* the `adapters` argument of __init__ (<<>>: None or no adapter)
    arg,        \* the argument of a call of one of the pure functions
    ret         \* what that call returned

vars == <<config, adapters, sem, waiters, cache, now, task, batch, given, arg, ret>>

\* (variant: the browser adapter is appended whether or not it is enabled)
DefaultAdaptersWithBrowser(use_browser_fallback) ==
    <<WikipediaAdapter, JsonApiAdapter, CsvAdapter, StaticHtmlAdapter, BrowserAdapter>>

\* _build_default_adapters
DefaultAdapters(use_browser_fallback) ==
    <<WikipediaAdapter, JsonApiAdapter, CsvAdapter, StaticHtmlAdapter>>
        \o (IF use_browser_fallback THEN <<BrowserAdapter>> ELSE <<>>)

ScraperConfig(max_retries, retry_backoff_s, per_run_cache_ttl_s, max_parallel_fetches) ==
    [max_retries |-> max_retries, retry_backoff_s |-> retry_backoff_s,
     use_browser_fallback |-> FALSE,
     per_run_cache_ttl_s |-> per_run_cache_ttl_s,
     max_parallel_fetches |-> max_parallel_fetches]

\* the config with use_browser_fallback = True
WithBrowser(cfg) == [cfg EXCEPT !.use_browser_fallback = TRUE]

IdleTask ==
    [pc |-> "idle", url |-> "", b |-> 0, idx |-> 0, attempt |-> 0,
     last_error |-> "", fallback_error |-> "", delay |-> 0,
     out |-> "", sleeps |-> <<>>, tries |-> <<>>, hist |-> <<>>,
     result |-> NoResult, via |-> "", deadline |-> -1]

\* no call of a pure function has been made
NoCall == [called |-> FALSE, value |-> <<>>]
\* a call of a pure function has returned v
Called(v) == [called |-> TRUE, value |-> v]

\* a cache slot: (expires_at, result)
CacheEntry(expires_at, result) == [expires_at |-> expires_at, result |-> result]
NoEntry == CacheEntry(-1, NoResult)

NoBatch == [state |-> "none", urls |-> <<>>, first |-> 0, results |-> <<>>]

\* ResolutionScraper.__init__ with the given config and `adapters` argument
Constructed(cfg, explicit) ==
    /\ config = cfg
    /\ given = explicit
    /\ adapters = IF explicit # <<>> THEN explicit
                  ELSE DefaultAdapters(cfg.use_browser_fallback)
    /\ sem = cfg.max_parallel_fetches
    /\ waiters = <<>>
    /\ cache = [u \in {} |-> NoEntry]
    /\ now = 0
    /\ task = [t \in Tasks |-> IdleTask]
    /\ batch = [b \in Batches |-> NoBatch]

(* --------------------------- the cache ---------------------------------- *)
\* (variant: an entry is still served at its deadline)
FreshInclusive(entry, time) == ~(time > entry.expires_at)

\* the freshness test of _get_cached: the entry is served strictly before
\* its deadline
Fresh(entry, time) == ~(time >= entry.expires_at)

\* (variant: only a successful result is served from the cache)
CacheHitSuccessOnly(c, url, time) ==
    url \in DOMAIN c /\ Fresh(c[url], time) /\ c[url].result.ok

\* _get_cached finds an entry it may return
CacheHit(c, url, time) == url \in DOMAIN c /\ Fresh(c[url], time)

\* (variant: an expired entry is passed over but stays in the cache)
AfterLookupKeeps(c, url, time) == c

\* the cache after _get_cached: an expired entry is deleted
AfterLookup(c, url, time) ==
    IF url \in DOMAIN c /\ ~Fresh(c[url], time)
    THEN [u \in DOMAIN c \ {url} |-> c[u]]
    ELSE c

\* (variant: the store replaces the whole dict)
SetCachedAlone(c, url, result, time) ==
    [u \in {url} |-> CacheEntry(time + config.per_run_cache_ttl_s, result)]

\* _set_cached
SetCached(c, url, result, time) ==
    [u \in DOMAIN c \cup {url} |->
        IF u = url THEN CacheEntry(time + config.per_run_cache_ttl_s, result)
                   ELSE c[u]]

(* ----------------------------- the report ------------------------------- *)
\* `failed` of format_scrape_errors: the results the report lists
failed_results(results) == SelectSeq(results, LAMBDA r : ~r.ok /\ Truthy(r.error))

(* ------------------------ the concurrency gate -------------------------- *)
\* The part of the state one step of a coroutine may change.
State == [task |-> task, sem |-> sem, waiters |-> waiters, cache |-> cache]

\* (variant: the gate looks at its queue only, not at its free slots)
LockedOnlyWaiters(st) == st.waiters # <<>>

\* asyncio.Semaphore.locked
Locked(st) == st.sem = 0 \/ st.waiters # <<>>

\* asyncio.Semaphore._wake_up_next: the slot goes to the oldest waiter that
\* has not been woken yet
WakeUpNext(st) ==
    LET pending == SelectSeq(st.waiters, LAMBDA w : st.task[w].pc = "waiting") IN
    IF pending = <<>> THEN st
    ELSE [st EXCEPT !.sem = @ - 1, !.task[Head(pending)].pc = "admitted"]

\* (variant: a release frees the slot and wakes nobody)
ReleaseNoWake(st) == [st EXCEPT !.sem = @ + 1]

\* asyncio.Semaphore.release, the exit of `async with self._semaphore`
Release(st) == WakeUpNext([st EXCEPT !.sem = @ + 1])

(* --------------------------- the adapter walk --------------------------- *)
NoAdapterError == "No adapter accepted this URL."
UnknownFetchError == "Unknown fetch error."

\* (variant: one attempt more than the retry budget allows)
TotalAttemptsMore == IF config.max_retries + 2 > 1 THEN config.max_retries + 2 ELSE 1

\* (variant: max_retries counts the attempts, not the retries)
TotalAttemptsShort == IF config.max_retries > 1 THEN config.max_retries ELSE 1

\* total_attempts of _fetch_with_retries
TotalAttempts == IF config.max_retries + 1 > 1 THEN config.max_retries + 1 ELSE 1

\* (variant: the exponent starts at one)
BackoffFromTwo(attempt) == config.retry_backoff_s * (2 ^ (attempt + 1))

\* the argument of asyncio.sleep after the attempt of the given index
Backoff(attempt) == config.retry_backoff_s * (2 ^ attempt)

\* the error text of the failed result of _fetch_with_retries
RetryError(adapter, last_error) == adapter \o ": " \o last_error

\* the coroutine has returned `result`; its locals are gone (tries, the
\* record of the attempts of its last retry loop, is kept)
Finished(rec, result, via, deadline) ==
    [rec EXCEPT !.pc = "done", !.result = result, !.via = via, !.deadline = deadline,
                !.idx = 0, !.attempt = 0, !.last_error = "", !.fallback_error = "",
                !.delay = 0, !.out = "", !.sleeps = <<>>]

\* the coroutine has raised
Failed(rec) ==
    [rec EXCEPT !.pc = "raised", !.idx = 0, !.attempt = 0, !.last_error = "",
                !.fallback_error = "", !.delay = 0, !.out = "", !.sleeps = <<>>,
                !.tries = <<>>]

RECURSIVE ScanUnchecked(_, _)
\* (variant: the result of can_handle is not looked at)
ScanUnchecked(url, i) ==
    IF i > Len(adapters) THEN [kind |-> "none", idx |-> 0]
    ELSE IF CanHandleRaises(adapters[i], url) THEN [kind |-> "raise", idx |-> i]
    ELSE [kind |-> "fetch", idx |-> i]

RECURSIVE Scan(_, _)
\* `for adapter in self.adapters` from position i on: the first adapter
\* whose can_handle raises or returns True
Scan(url, i) ==
    IF i > Len(adapters) THEN [kind |-> "none", idx |-> 0]
    ELSE IF CanHandleRaises(adapters[i], url) THEN [kind |-> "raise", idx |-> i]
    ELSE IF CanHandle(adapters[i], url) THEN [kind |-> "fetch", idx |-> i]
    ELSE Scan(url, i + 1)

\* (variant: the failure at the end of the walk is returned but not cached)
WalkNoStore(st, t, i) ==
    LET rec == st.task[t]
        s == Scan(rec.url, i)
        failed == ScrapeResult(rec.url, FALSE, <<>>, rec.fallback_error)
    IN CASE s.kind = "raise" ->
              Release([st EXCEPT !.task[t] = Failed(rec)])
         [] s.kind = "fetch" ->
              [st EXCEPT !.task[t] =
                  [rec EXCEPT !.pc = "fetching", !.idx = s.idx, !.attempt = 0,
                              !.last_error = UnknownFetchError,
                              !.out = "", !.sleeps = <<>>]]
         [] OTHER ->
              LET st1 == Release(st) IN
              [st1 EXCEPT !.task[t] = Finished(rec, failed, "walk",
                                               now + config.per_run_cache_ttl_s)]

\* scrape_url, inside the gate, from chain position i up to the next await
\* (the first fetch of the next capable adapter) or up to its end
Walk(st, t, i) ==
    LET rec == st.task[t]
        s == Scan(rec.url, i)
        failed == ScrapeResult(rec.url, FALSE, <<>>, rec.fallback_error)
    IN CASE s.kind = "raise" ->
              Release([st EXCEPT !.task[t] = Failed(rec)])
         [] s.kind = "fetch" ->
              [st EXCEPT !.task[t] =
                  [rec EXCEPT !.pc = "fetching", !.idx = s.idx, !.attempt = 0,
                              !.last_error = UnknownFetchError,
                              !.out = "", !.sleeps = <<>>]]
         [] OTHER ->
              LET st1 == Release(st) IN
              [st1 EXCEPT !.task[t] = Finished(rec, failed, "walk",
                                               now + config.per_run_cache_ttl_s),
                          !.cache = SetCached(st.cache, rec.url, failed, now)]

\* (variant: a result is accepted for its ok flag alone)
EndLoopAcceptsOk(st, t, result) ==
    LET rec == st.task[t]
        loop == [adapter |-> rec.idx, attempts |-> rec.attempt + 1, sleeps |-> rec.sleeps,
                 last_error |-> IF result.ok THEN "" ELSE rec.last_error,
                 result |-> result]
        rec1 == [rec EXCEPT !.hist = Append(@, loop)]
    IN IF result.ok
       THEN LET st1 == Release(st) IN
            [st1 EXCEPT !.task[t] = Finished(rec1, result, "walk",
                                             now + config.per_run_cache_ttl_s),
                        !.cache = SetCached(st.cache, rec.url, result, now)]
       ELSE Walk([st EXCEPT !.task[t] =
                     [rec1 EXCEPT !.fallback_error =
                         IF Truthy(result.error) THEN result.error ELSE @]],
                 t, rec.idx + 1)

\* (variant: the error of the first failing adapter of the walk is kept)
EndLoopKeepsFirst(st, t, result) ==
    LET rec == st.task[t]
        loop == [adapter |-> rec.idx, attempts |-> rec.attempt + 1, sleeps |-> rec.sleeps,
                 last_error |-> IF result.ok THEN "" ELSE rec.last_error,
                 result |-> result]
        rec1 == [rec EXCEPT !.hist = Append(@, loop)]
    IN IF result.ok /\ result.signals # <<>>
       THEN LET st1 == Release(st) IN
            [st1 EXCEPT !.task[t] = Finished(rec1, result, "walk",
                                             now + config.per_run_cache_ttl_s),
                        !.cache = SetCached(st.cache, rec.url, result, now)]
       ELSE Walk([st EXCEPT !.task[t] =
                     [rec1 EXCEPT !.fallback_error =
                         IF @ # NoAdapterError THEN @
                         ELSE IF Truthy(result.error) THEN result.error ELSE @]],
                 t, rec.idx + 1)

\* scrape_url after _fetch_with_retries has returned `result`
EndLoop(st, t, result) ==
    LET rec == st.task[t]
        loop == [adapter |-> rec.idx, attempts |-> rec.attempt + 1, sleeps |-> rec.sleeps,
                 last_error |-> IF result.ok THEN "" ELSE rec.last_error,
                 result |-> result]
        rec1 == [rec EXCEPT !.hist = Append(@, loop)]
    IN IF result.ok /\ result.signals # <<>>
       THEN LET st1 == Release(st) IN
            [st1 EXCEPT !.task[t] = Finished(rec1, result, "walk",
                                             now + config.per_run_cache_ttl_s),
                        !.cache = SetCached(st.cache, rec.url, result, now)]
       ELSE Walk([st EXCEPT !.task[t] =
                     [rec1 EXCEPT !.fallback_error =
                         IF Truthy(result.error) THEN result.error ELSE @]],
                 t, rec.idx + 1)

\* (variant: the error text of the first failed attempt is kept)
AfterFetchKeepsFirst(st, t, o) ==
    LET rec == st.task[t]
        kind == IF o.raised THEN "raise" ELSE IF o.result.ok THEN "ok" ELSE "fail"
        rec1 == [rec EXCEPT !.out = kind,
                            !.tries = Append(IF rec.attempt = 0 THEN <<>> ELSE @,
                                             [kind |-> kind,
                                              error |-> IF o.raised THEN o.msg
                                                        ELSE o.result.error])]
        last_error == IF rec.last_error # UnknownFetchError THEN rec.last_error
                      ELSE IF o.raised THEN o.msg
                      ELSE IF Truthy(o.result.error) THEN o.result.error
                      ELSE rec.last_error
    IN IF kind = "ok"
       THEN EndLoop([st EXCEPT !.task[t] = rec1], t, o.result)
       ELSE IF rec.attempt < TotalAttempts - 1
       THEN [st EXCEPT !.task[t] =
                [rec1 EXCEPT !.pc = "sleeping", !.last_error = last_error,
                             !.delay = Backoff(rec.attempt),
                             !.sleeps = Append(@, Backoff(rec.attempt))]]
       ELSE EndLoop([st EXCEPT !.task[t] = [rec1 EXCEPT !.last_error = last_error]], t,
                    ScrapeResult(rec.url, FALSE, <<>>,
                                 RetryError(adapters[rec.idx], last_error)))

\* _fetch_with_retries after the awaited adapter.fetch has ended in `o`
AfterFetch(st, t, o) ==
    LET rec == st.task[t]
        kind == IF o.raised THEN "raise" ELSE IF o.result.ok THEN "ok" ELSE "fail"
        rec1 == [rec EXCEPT !.out = kind,
                            !.tries = Append(IF rec.attempt = 0 THEN <<>> ELSE @,
                                             [kind |-> kind,
                                              error |-> IF o.raised THEN o.msg
                                                        ELSE o.result.error])]
        last_error == IF o.raised THEN o.msg
                      ELSE IF Truthy(o.result.error) THEN o.result.error
                      ELSE rec.last_error
    IN IF kind = "ok"
       THEN EndLoop([st EXCEPT !.task[t] = rec1], t, o.result)
       ELSE IF rec.attempt < TotalAttempts - 1
       THEN [st EXCEPT !.task[t] =
                [rec1 EXCEPT !.pc = "sleeping", !.last_error = last_error,
                             !.delay = Backoff(rec.attempt),
                             !.sleeps = Append(@, Backoff(rec.attempt))]]
       ELSE EndLoop([st EXCEPT !.task[t] = [rec1 EXCEPT !.last_error = last_error]], t,
                    ScrapeResult(rec.url, FALSE, <<>>,
                                 RetryError(adapters[rec.idx], last_error)))

\* (variant: the walk starts with no error text)
BeginWalkNoText(st, t) ==
    Walk([st EXCEPT !.task[t].fallback_error = ""], t, 1)

\* the first line inside `async with self._semaphore`
BeginWalk(st, t) ==
    Walk([st EXCEPT !.task[t].fallback_error = NoAdapterError], t, 1)

Becomes(st) ==
    /\ task' = st.task
    /\ sem' = st.sem
    /\ waiters' = st.waiters
    /\ cache' = st.cache

(* ------------------------------ actions --------------------------------- *)
\* (variant: the call walks the adapters without looking at the cache)
EnterNoLookup(t) ==
    /\ task[t].pc = "start"
    /\ IF ~Locked(State)
       THEN Becomes(BeginWalk([State EXCEPT !.sem = @ - 1], t))
       ELSE Becomes([State EXCEPT !.waiters = Append(@, t),
                                  !.task[t].pc = "waiting"])
    /\ UNCHANGED <<given, arg, ret, config, adapters, now, batch>>

\* (variant: the cache lookup is made inside the gate)
EnterGated(t) ==
    /\ task[t].pc = "start"
    /\ LET url == task[t].url
           st == [State EXCEPT !.cache = AfterLookup(cache, url, now)]
       IN IF Locked(st)
          THEN Becomes([st EXCEPT !.waiters = Append(@, t),
                                  !.task[t].pc = "waiting"])
          ELSE IF CacheHit(cache, url, now)
          THEN Becomes([st EXCEPT !.task[t] =
                          Finished(@, cache[url].result, "cache", -1)])
          ELSE Becomes(BeginWalk([st EXCEPT !.sem = @ - 1], t))
    /\ UNCHANGED <<given, arg, ret, config, adapters, now, batch>>

\* scrape_url from its call to its first await: the cache lookup, and on a
\* miss the acquire of the gate and the start of the walk
Enter(t) ==
    /\ task[t].pc = "start"
    /\ LET url == task[t].url
           st == [State EXCEPT !.cache = AfterLookup(cache, url, now)]
       IN IF CacheHit(cache, url, now)
          THEN Becomes([st EXCEPT !.task[t] =
                          Finished(@, cache[url].result, "cache", -1)])
          ELSE IF ~Locked(st)
          THEN Becomes(BeginWalk([st EXCEPT !.sem = @ - 1], t))
          ELSE Becomes([st EXCEPT !.waiters = Append(@, t),
                                  !.task[t].pc = "waiting"])
    /\ UNCHANGED <<given, arg, ret, config, adapters, now, batch>>

\* a woken waiter runs again: the end of Semaphore.acquire, then the walk
Resume(t) ==
    /\ task[t].pc = "admitted"
    /\ LET st1 == [State EXCEPT !.waiters = SelectSeq(@, LAMBDA w : w # t)]
           st2 == IF st1.sem > 0 THEN WakeUpNext(st1) ELSE st1
       IN Becomes(BeginWalk(st2, t))
    /\ UNCHANGED <<given, arg, ret, config, adapters, now, batch>>

\* the awaited adapter.fetch ends, the source having answered `resp`
FetchReturn(t, resp) ==
    /\ task[t].pc = "fetching"
    /\ resp \in Responses(adapters[task[t].idx])
    /\ Becomes(AfterFetch(State, t, Fetch(adapters[task[t].idx], task[t].url, resp)))
    /\ UNCHANGED <<given, arg, ret, config, adapters, now, batch>>

\* the awaited asyncio.sleep ends; the next attempt begins
Wake(t) ==
    /\ task[t].pc = "sleeping"
    /\ task' = [task EXCEPT ![t].pc = "fetching", ![t].attempt = @ + 1, ![t].delay = 0]
    /\ UNCHANGED <<given, arg, ret, config, adapters, sem, waiters, cache, now, batch>>

\* the wall clock advances
Tick ==
    /\ now < MaxTime
    /\ now' = now + 1
    /\ UNCHANGED <<given, arg, ret, config, adapters, sem, waiters, cache, task, batch>>

\* tasks not yet used by a batch
Unused == {t \in Tasks : task[t].pc = "idle"}

\* scrape_question_sources up to asyncio.gather, with the URLs that
\* extract_resolution_urls returned
StartBatch(b, urls) ==
    /\ batch[b].state = "none"
    /\ IF b = 1 THEN TRUE ELSE batch[b - 1].state # "none"
    /\ Len(urls) <= Cardinality(Unused)
    /\ LET first == NumTasks - Cardinality(Unused) + 1 IN
       IF urls = <<>>
       THEN /\ batch' = [batch EXCEPT ![b] = [state |-> "returned", urls |-> urls,
                                              first |-> first, results |-> <<>>]]
            /\ UNCHANGED task
       ELSE /\ batch' = [batch EXCEPT ![b] = [state |-> "running", urls |-> urls,
                                              first |-> first, results |-> <<>>]]
            /\ task' = [t \in Tasks |->
                          IF t >= first /\ t < first + Len(urls)
                          THEN [IdleTask EXCEPT !.pc = "start", !.b = b,
                                                !.url = urls[t - first + 1]]
                          ELSE task[t]]
    /\ UNCHANGED <<given, arg, ret, config, adapters, sem, waiters, cache, now>>

\* the tasks of a batch, in the order of its URLs
BatchTasks(b) == [i \in 1..Len(batch[b].urls) |-> batch[b].first + i - 1]

\* asyncio.gather returns: every coroutine has returned
GatherReturn(b) ==
    /\ batch[b].state = "running"
    /\ \A i \in 1..Len(batch[b].urls) : task[BatchTasks(b)[i]].pc = "done"
    /\ batch' = [batch EXCEPT ![b].state = "returned",
                              ![b].results = [i \in 1..Len(batch[b].urls) |->
                                                 task[BatchTasks(b)[i]].result]]
    /\ UNCHANGED <<given, arg, ret, config, adapters, sem, waiters, cache, now, task>>

\* asyncio.gather raises: a coroutine has raised (the others keep running)
GatherRaise(b) ==
    /\ batch[b].state = "running"
    /\ \E i \in 1..Len(batch[b].urls) : task[BatchTasks(b)[i]].pc = "raised"
    /\ batch' = [batch EXCEPT ![b].state = "raised"]
    /\ UNCHANGED <<given, arg, ret, config, adapters, sem, waiters, cache, now, task>>

(* --------------------------- specifications ----------------------------- *)
RECURSIVE UniqueSeqs(_, _)
\* the duplicate-free lists of at most n elements of S
UniqueSeqs(S, n) ==
    IF n = 0 THEN {<<>>}
    ELSE LET shorter == UniqueSeqs(S, n - 1) IN
         shorter \cup
         {Append(p[1], p[2]) :
             p \in {pp \in shorter \X S :
                       /\ Len(pp[1]) = n - 1
                       /\ \A i \in 1..Len(pp[1]) : pp[1][i] # pp[2]}}

\* Concurrent use of one instance: overlapping batches of URLs over the
\* default chain, with the clock running.
SharedUrls == {UrlHtml, UrlBad}
SharedConfigs == {ScraperConfig(1, 1, 1, 1), ScraperConfig(0, 1, 1, 2)}
SharedChains == {<<>>}
SharedResponses == {"error", "number"}
\* the URL lists extract_resolution_urls may hand to a batch
SharedBatches == UniqueSeqs(SharedUrls, NumTasks)

Init ==
    /\ \E cfg \in SharedConfigs, chain \in SharedChains : Constructed(cfg, chain)
    /\ arg = NoCall /\ ret = NoCall

Next ==
    \/ \E b \in Batches, urls \in SharedBatches : StartBatch(b, urls)
    \/ \E t \in Tasks : Enter(t)
    \/ \E t \in Tasks : Resume(t)
    \/ \E t \in Tasks, resp \in SharedResponses : FetchReturn(t, resp)
    \/ \E t \in Tasks : Wake(t)
    \/ \E b \in Batches : GatherReturn(b)
    \/ \E b \in Batches : GatherRaise(b)
    \/ Tick

Spec == Init /\ [][Next]_vars

\* One batch on an instance with a single slot and one retry, under the
\* scheduling of the event loop.
GateUrls == {UrlHtml, UrlCsv, UrlBad}
GateConfigs == {ScraperConfig(1, 1, 1, 1)}
GateBatches == UniqueSeqs(GateUrls, NumTasks) \ {<<>>}

InitGate ==
    /\ \E cfg \in GateConfigs : Constructed(cfg, <<>>)
    /\ arg = NoCall /\ ret = NoCall

\* a step of some coroutine
Runs ==
    \E t \in Tasks :
        \/ Enter(t)
        \/ Resume(t)
        \/ Wake(t)
        \/ \E resp \in SharedResponses : FetchReturn(t, resp)

NextGate ==
    \/ \E urls \in GateBatches : StartBatch(1, urls)
    \/ Runs
    \/ GatherReturn(1)
    \/ GatherRaise(1)

\* while a coroutine is ready to run (called, woken at the gate, at the end
\* of its sleep or of its awaited fetch), the loop runs one
Fairness == WF_vars(Runs)

SpecGate == InitGate /\ [][NextGate]_vars /\ Fairness

\* Concurrent use of one instance for two URLs that both end in the cache,
\* over the default chain, with the clock running. No can_handle raises for
\* these URLs, so that no gather raises.
KeyUrls == {UrlHtml, UrlCsv}
KeyConfigs == {ScraperConfig(0, 1, 1, 2)}
KeyBatches == UniqueSeqs(KeyUrls, NumTasks) \ {<<>>}
\* both sources answer with a number
KeyResponses == {"number"}

InitKeys ==
    /\ \E cfg \in KeyConfigs : Constructed(cfg, <<>>)
    /\ arg = NoCall /\ ret = NoCall

NextKeys ==
    \/ \E b \in Batches, urls \in KeyBatches : StartBatch(b, urls)
    \/ \E t \in Tasks : Enter(t)
    \/ \E t \in Tasks : Resume(t)
    \/ \E t \in Tasks, resp \in KeyResponses : FetchReturn(t, resp)
    \/ \E b \in Batches : GatherReturn(b)
    \/ Tick

SpecKeys == InitKeys /\ [][NextKeys]_vars

\* One scrape_url call on a fresh instance, over every chain, URL, retry
\* budget and answer of the sources.
WalkConfigs ==
    LET plain == {ScraperConfig(r, back, 1, 1) : r \in {-1, 0, 1, 2}, back \in {1, 3}}
    IN plain \cup {WithBrowser(cfg) : cfg \in plain}
\* no explicit chain, or one of four
WalkChains ==
    {<<>>,
     <<WikipediaAdapter, CsvAdapter>>,
     <<CustomAdapter, CsvAdapter>>,
     <<CustomAdapter, StaticHtmlAdapter>>,
     <<StaticHtmlAdapter, CustomAdapter, JsonApiAdapter>>}

InitWalk ==
    /\ \E cfg \in WalkConfigs, chain \in WalkChains :
          /\ chain = <<>> \/ ~cfg.use_browser_fallback
          /\ Constructed(cfg, chain)
    /\ arg = NoCall /\ ret = NoCall

NextWalk ==
    \/ \E url \in AllUrls : StartBatch(1, <<url>>)
    \/ Enter(1)
    \/ \E resp \in BuiltinResponses \cup {"empty", "silent"} : FetchReturn(1, resp)
    \/ Wake(1)
    \/ GatherReturn(1)
    \/ GatherRaise(1)

SpecWalk == InitWalk /\ [][NextWalk]_vars

(* --------------------------- URL extraction ----------------------------- *)
\* A text is a sequence of characters. The character "h" stands for a URL
\* scheme with its separator, "http://" or "https://", which the two
\* patterns match as a whole (`https?://`).
Scheme == "h"
Whitespace == {" ", "\n"}
\* the characters _clean_url strips
Punctuation == {".", ",", ";", ":", "!", "?"}

\* s[i..j]
Slice(s, i, j) == [k \in 1..(j - i + 1) |-> s[i + k - 1]]

\* the least index >= i of s that holds a character of the set, or 0
RECURSIVE IndexOf(_, _, _)
IndexOf(s, set, i) ==
    IF i > Len(s) THEN 0
    ELSE IF s[i] \in set THEN i
    ELSE IndexOf(s, set, i + 1)

\* The match of MARKDOWN_LINK_RE that starts at i, if there is one, as
\* [last, url]: "[", one or more characters other than "]", "](", the
\* scheme, one or more characters other than ")", and ")". last = 0: none.
MarkdownMatch(s, i) ==
    LET j == IndexOf(s, {"]"}, i + 1)
        k == IF j = 0 THEN 0 ELSE IndexOf(s, {")"}, j + 3)
        none == [last |-> 0, url |-> <<>>]
    IN IF s[i] # "[" THEN none
       ELSE IF j = 0 \/ j = i + 1 THEN none
       ELSE IF j + 2 > Len(s) THEN none
       ELSE IF s[j + 1] # "(" \/ s[j + 2] # Scheme THEN none
       ELSE IF k = 0 \/ k = j + 3 THEN none
       ELSE [last |-> k, url |-> Slice(s, j + 2, k - 1)]

\* MARKDOWN_LINK_RE.findall from position i on
RECURSIVE MarkdownFindall(_, _)
MarkdownFindall(s, i) ==
    IF i > Len(s) THEN <<>>
    ELSE LET m == MarkdownMatch(s, i) IN
         IF m.last = 0 THEN MarkdownFindall(s, i + 1)
         ELSE <<m.url>> \o MarkdownFindall(s, m.last + 1)

\* the characters that end a match of PLAIN_URL_RE
PlainStop == Whitespace \cup {")", ">", "]"}

\* The match of PLAIN_URL_RE that starts at i, if there is one: the scheme
\* and one or more characters that are not in PlainStop.
PlainMatch(s, i) ==
    LET e == IndexOf(s, PlainStop, i + 1)
        last == IF e = 0 THEN Len(s) ELSE e - 1
    IN IF s[i] # Scheme \/ last = i
       THEN [last |-> 0, url |-> <<>>]
       ELSE [last |-> last, url |-> Slice(s, i, last)]

\* PLAIN_URL_RE.findall from position i on
RECURSIVE PlainFindall(_, _)
PlainFindall(s, i) ==
    IF i > Len(s) THEN <<>>
    ELSE LET m == PlainMatch(s, i) IN
         IF m.last = 0 THEN PlainFindall(s, i + 1)
         ELSE <<m.url>> \o PlainFindall(s, m.last + 1)

\* (variant: one trailing punctuation character is stripped)
RstripOnce(url) ==
    IF url # <<>> /\ url[Len(url)] \in Punctuation
    THEN SubSeq(url, 1, Len(url) - 1)
    ELSE url

\* url.rstrip(".,;:!?")
RECURSIVE _clean_url(_)
_clean_url(url) ==
    IF url # <<>> /\ url[Len(url)] \in Punctuation
    THEN _clean_url(SubSeq(url, 1, Len(url) - 1))
    ELSE url

\* the list `urls`: the markdown-link targets, then the bare tokens
Collected(text) == MarkdownFindall(text, 1) \o PlainFindall(text, 1)

\* the loop over `urls` from position i on, with `deduped` so far
RECURSIVE Dedupe(_, _, _)
Dedupe(urls, i, deduped) ==
    IF i > Len(urls) THEN deduped
    ELSE LET url == _clean_url(urls[i]) IN
         IF \E k \in 1..Len(deduped) : deduped[k] = url
         THEN Dedupe(urls, i + 1, deduped)
         ELSE Dedupe(urls, i + 1, Append(deduped, url))

\* extract_resolution_urls on the joined text
extract_resolution_urls(text) == Dedupe(Collected(text), 1, <<>>)

\* The texts: up to MaxPieces pieces in a row. A newline is what joins the
\* non-empty fields (resolution criteria, fine print, description).
Pieces ==
    {<<"[", "t", "]", "(">>, <<Scheme, "a">>, <<Scheme, "b">>,
     <<".">>, <<"?">>, <<")">>, <<"\n">>}

RECURSIVE Flatten(_)
Flatten(ps) == IF ps = <<>> THEN <<>> ELSE Head(ps) \o Flatten(Tail(ps))

\* a caller calls extract_resolution_urls
CallExtract ==
    /\ ret = NoCall
    /\ ret' = Called(extract_resolution_urls(arg))
    /\ UNCHANGED <<arg, given, config, adapters, sem, waiters, cache, now, task, batch>>

InitExtract ==
    /\ Constructed(ScraperConfig(2, 1, 1, 4), <<>>)
    /\ \E n \in 0..MaxPieces : \E ps \in [1..n -> Pieces] : arg = Flatten(ps)
    /\ ret = NoCall

NextExtract == CallExtract

SpecExtract == InitExtract /\ [][NextExtract]_vars

(* -------------------------- URL classification -------------------------- *)
\* the call raises ValueError
Raises == "<raises>"

\* classify_url on a parsed URL
classify_url(p) ==
    IF p.raises THEN Raises
    ELSE LET host == Lower(p.netloc)
             path == Lower(p.path)
         IN IF Contains(host, <<"wikipedia.org">>) THEN "wikipedia"
            ELSE IF \/ EndsWith(path, ".json")
                    \/ Contains(path, <<"api">>)
                    \/ Contains(p.query, <<"format=json">>) THEN "json_api"
            ELSE IF EndsWith(path, ".csv") THEN "csv"
            ELSE IF EndsWith(path, ".xml") THEN "xml"
            ELSE IF EndsWith(path, ".pdf") THEN "pdf"
            ELSE "html"

\* choose_adapter over the chain from position i on: the name of the first
\* adapter whose can_handle returns True, None if there is none
RECURSIVE choose_adapter(_, _, _)
choose_adapter(chain, p, i) ==
    IF i > Len(chain) THEN None
    ELSE IF chain[i] \in ParsingAdapters /\ p.raises THEN Raises
    ELSE IF Handles(chain[i], Facts(p)) THEN chain[i]
    ELSE choose_adapter(chain, p, i + 1)

\* the URLs: every host with every path and every query
Hosts ==
    {<<"x.org">>, <<"wikipedia.org">>, <<"en", ".", "wikipedia.org">>,
     <<"EN", ".", "WIKIPEDIA.ORG">>}
Paths ==
    {<<>>, <<"/page">>, <<"/", "api", "/stats">>, <<"/r", "api", "d">>,
     <<"/d", ".json">>, <<"/data", ".csv">>, <<"/DATA", ".CSV">>,
     <<"/", "api", "/t", ".csv">>, <<"/feed", ".xml">>, <<"/r", ".pdf">>}
Queries ==
    {<<>>, <<"format=json">>, <<"FORMAT=JSON">>, <<"f=a", ".csv">>}
ParsedUrls ==
    {Url(h, p, q) : h \in Hosts, p \in Paths, q \in Queries} \cup {Unparsable}

\* a caller calls classify_url
CallClassify ==
    /\ ret = NoCall
    /\ ret' = Called(classify_url(arg))
    /\ UNCHANGED <<arg, given, config, adapters, sem, waiters, cache, now, task, batch>>

InitClassify ==
    /\ \E cfg \in {ScraperConfig(2, 1, 1, 4), WithBrowser(ScraperConfig(2, 1, 1, 4))} :
          Constructed(cfg, <<>>)
    /\ arg \in ParsedUrls /\ ret = NoCall

NextClassify == CallClassify

SpecClassify == InitClassify /\ [][NextClassify]_vars

(* ------------------------- JSON value extraction ------------------------ *)
\* A parsed JSON value: a number (int or float), a boolean, a string, null,
\* an object (its keys in original order, items[i] the value of keys[i]) or
\* an array of items.
JNumber(v) == [type |-> "number", v |-> v, keys |-> <<>>, items |-> <<>>]
JBool(b) == [type |-> "bool", v |-> IF b THEN 1 ELSE 0, keys |-> <<>>, items |-> <<>>]
JString == [type |-> "string", v |-> 0, keys |-> <<>>, items |-> <<>>]
JObject(keys, items) == [type |-> "object", v |-> 0, keys |-> keys, items |-> items]
JArray(items) == [type |-> "array", v |-> 0, keys |-> <<>>, items |-> items]

\* self.priority_keys
priority_keys == <<"value", "count", "total", "articles", "result", "latest", "data">>

\* the set of the elements of a list
Range(s) == {s[i] : i \in 1..Len(s)}

\* The keys of an object are named below by their positions in it.
Positions(current) == [i \in 1..Len(current.keys) |-> i]

\* the position of the key in the object, 0 if it does not have it
PositionOf(current, key) ==
    LET at == SelectSeq(Positions(current), LAMBDA i : current.keys[i] = key)
    IN IF at = <<>> THEN 0 ELSE at[1]

\* (variant: the keys of an object are taken in their original order)
OriginalKeys(current) == Positions(current)

\* ordered_keys: the priority keys the object has, in priority order, then
\* its other keys in original order
ordered_keys(current) ==
    LET priority == Range(priority_keys) IN
    SelectSeq([j \in 1..Len(priority_keys) |-> PositionOf(current, priority_keys[j])],
              LAMBDA p : p # 0)
        \o SelectSeq(Positions(current), LAMBDA i : current.keys[i] \notin priority)

max_nodes == 2000

\* (variant: one more element of an array is looked at)
MaxItemsMore == 20 + 1

\* the length of the slice current[:20]
MaxItems == 20

Min(a, b) == IF a < b THEN a ELSE b

\* what the loop appends to the queue for the node `current` at `path`
Children(path, current) ==
    IF current.type = "object"
    THEN LET ks == ordered_keys(current) IN
         [i \in 1..Len(ks) |->
             [path |-> path \o "." \o current.keys[ks[i]],
              node |-> current.items[ks[i]], index |-> -1]]
    ELSE IF current.type = "array"
    THEN [i \in 1..Min(Len(current.items), MaxItems) |->
             [path |-> path \o "[" \o ToString(i - 1) \o "]",
              node |-> current.items[i], index |-> i - 1]]
    ELSE <<>>

\* the nodes at which an iteration does more than `visited += 1`
Acts(entry) == entry.node.type \in {"number", "object", "array"}

\* the least index >= head of the queue whose node is such a node, or 0
NextActing(queue, head) ==
    LET at == SelectSeq([i \in 1..Len(queue) |-> i],
                        LAMBDA i : i >= head /\ Acts(queue[i]))
    IN IF at = <<>> THEN 0 ELSE at[1]

\* The loop `while queue and visited < max_nodes`, the queue being
\* queue[head..]. The iterations over booleans, strings and nulls only count
\* the node, so the loop is taken from one acting node to the next. The
\* result carries the number of nodes taken from the queue and those nodes,
\* oldest first.
RECURSIVE Loop(_, _, _)
Loop(queue, head, visited) ==
    LET stop == NextActing(queue, head)
        \* the last index the budget lets the loop take
        last == Min(Len(queue), head + (max_nodes - visited) - 1)
        none == [found |-> FALSE, path |-> "", value |-> 0, type |-> ""]
    IN IF head > Len(queue) \/ visited >= max_nodes
       THEN none @@ [visited |-> visited, taken |-> SubSeq(queue, 1, head - 1)]
       ELSE IF stop = 0 \/ stop > last
       THEN none @@ [visited |-> visited + (last - head + 1),
                     taken |-> SubSeq(queue, 1, last)]
       ELSE IF queue[stop].node.type = "number"
       THEN [found |-> TRUE, path |-> queue[stop].path,
             value |-> queue[stop].node.v, type |-> queue[stop].node.type,
             visited |-> visited + (stop - head + 1),
             taken |-> SubSeq(queue, 1, stop)]
       ELSE Loop(queue \o Children(queue[stop].path, queue[stop].node),
                 stop + 1, visited + (stop - head + 1))

\* JsonApiAdapter._extract_numeric_value
_extract_numeric_value(payload) ==
    Loop(<<[path |-> "$", node |-> payload, index |-> -1]>>, 1, 0)

\* JsonApiAdapter.fetch once _extract_numeric_value has returned
JsonApiResult(url, extracted) ==
    IF ~extracted.found
    THEN Failure(url, "No numeric value found in JSON payload.").result
    ELSE Success(url, "json_numeric_value", JsonApiAdapter, "medium").result

\* The payloads that are enumerated: every value of at most MaxPayload
\* nodes over these leaves and keys.
JsonLeaves == {JNumber(5), JNumber(9), JBool(TRUE), JString}
JsonKeys == {"other", "total", "data"}

RECURSIVE Payloads(_)
RECURSIVE Forests(_, _)
\* the lists of k payloads of m nodes in all
Forests(k, m) ==
    IF k = 0 THEN (IF m = 0 THEN {<<>>} ELSE {})
    ELSE UNION {{<<p>> \o f : p \in Payloads(n), f \in Forests(k - 1, m - n)} :
                   n \in 1..(m - k + 1)}

\* the payloads of exactly n nodes
Payloads(n) ==
    IF n = 1 THEN JsonLeaves \cup {JObject(<<>>, <<>>), JArray(<<>>)}
    ELSE UNION {{JArray(f) : f \in Forests(k, n - 1)}
                  \cup {JObject(ks, f) :
                           ks \in {q \in UniqueSeqs(JsonKeys, k) : Len(q) = k},
                           f \in Forests(k, n - 1)} :
                   k \in 1..(n - 1)}

\* An object of n keys whose values are strings, but for the number 7 at
\* the k-th key; an array of n strings, but for the number 7 at index k.
WideObject(n, k) ==
    JObject([i \in 1..n |-> "k" \o ToString(i)],
            [i \in 1..n |-> IF i = k THEN JNumber(7) ELSE JString])
WideArray(n, k) ==
    JArray([i \in 1..n |-> IF i - 1 = k THEN JNumber(7) ELSE JString])

\* The payloads at the limits: the root and 2099 children, the number
\* being the 1999th, 2000th, 2001st or 2099th node taken or absent; arrays
\* of 20 to 22 elements, the number at index 19, 20 or 21 or absent, alone
\* or under a key.
WidePayloads ==
    {WideObject(2099, k) : k \in {0, 1998, 1999, 2000, 2098}}
        \cup {WideArray(n, k) : n \in 20..22, k \in 19..22}
        \cup {JObject(<<"data">>, <<WideArray(n, k)>>) : n \in 20..22, k \in 19..22}

\* a call of _extract_numeric_value, as fetch makes it
CallExtractNumeric ==
    /\ ret = NoCall
    /\ LET extracted == _extract_numeric_value(arg) IN
       ret' = Called([extracted |-> extracted,
                      result |-> JsonApiResult(UrlApi, extracted)])
    /\ UNCHANGED <<arg, given, config, adapters, sem, waiters, cache, now, task, batch>>

InitJson ==
    /\ Constructed(ScraperConfig(2, 1, 1, 4), <<>>)
    /\ \/ arg \in Payloads(1) \cup WidePayloads
       \/ \E n \in 2..MaxPayload : \E k \in 1..(n - 1) : \E f \in Forests(k, n - 1) :
             \/ arg = JArray(f)
             \/ \E ks \in {q \in UniqueSeqs(JsonKeys, k) : Len(q) = k} :
                   arg = JObject(ks, f)
    /\ ret = NoCall

NextJson == CallExtractNumeric

SpecJson == InitJson /\ [][NextJson]_vars

(* ------------------------------ properties ------------------------------ *)
\* the scrape_url calls that hold a slot of the gate: between the acquire
\* (or the hand-over of a slot by a release) and the release
Inside == {t \in Tasks : task[t].pc \in {"admitted", "fetching", "sleeping"}}

\* the condition of scrape_url for accepting a result
Accepted(r) == r.ok /\ r.signals # <<>>

\* the chain positions whose can_handle returns True for the URL
Capable(url) ==
    {i \in 1..Len(adapters) :
        ~CanHandleRaises(adapters[i], url) /\ CanHandle(adapters[i], url)}

\* can_handle returns for every adapter of the chain
AllReturn(url) == \A i \in 1..Len(adapters) : ~CanHandleRaises(adapters[i], url)

SetMax(S) == CHOOSE x \in S : \A y \in S : y <= x

\* the call returned after a walk of its own
Walked(t) == task[t].pc = "done" /\ task[t].via = "walk"

\* C1: at most max_parallel_fetches scrape_url calls are inside the gated
\* adapter walk (fetching, in a backoff sleep, or holding a slot handed
\* to them) at any time.
C1_GateBound == Cardinality(Inside) <= config.max_parallel_fetches

\* every slot is taken, one holder is in a backoff sleep, another call waits
C1_Witness ==
    /\ Cardinality(Inside) = config.max_parallel_fetches
    /\ \E t \in Inside : task[t].pc = "sleeping"
    /\ \E t \in Tasks : task[t].pc = "waiting"

\* the step in which call t performs its cache lookup
Lookup(t) == task[t].pc = "start" /\ task'[t].pc # "start"

\* the step in which call t ends its walk and returns
Returns(t) == task[t].pc # "done" /\ task'[t].pc = "done" /\ task'[t].via = "walk"

\* C2 as stated: the result written by a call at t0 is what every lookup
\* strictly before t0 + TTL returns, with no fetch, and the first lookup at
\* or after t0 + TTL misses, walks the adapters once and stores its outcome.
C2_WrittenResultServedUntilDeadline ==
    /\ [](\A w \in Tasks :
            Walked(w) /\ now < task[w].deadline =>
                /\ CacheHit(cache, task[w].url, now)
                /\ cache[task[w].url].result = task[w].result)
    /\ [][\A t \in Tasks :
            Lookup(t) /\ task[t].url \in DOMAIN cache
                      /\ now >= cache[task[t].url].expires_at
                => task'[t].via # "cache"]_vars

\* C2 amended: a lookup strictly before the deadline of the entry stored
\* for the URL returns the stored result (the last one written for it) with
\* no fetch and no change of the cache or the gate; a lookup at or after the
\* deadline evicts the entry and the call walks the adapters once; a call
\* that returns from its walk stores its outcome with the deadline now + TTL;
\* and a stored entry changes by such a store or such an eviction only.
C2_StoredResultServedUntilDeadline ==
    /\ [](\A u \in DOMAIN cache : \E w \in Tasks :
            /\ Walked(w) /\ task[w].url = u
            /\ cache[u] = CacheEntry(task[w].deadline, task[w].result))
    /\ [](\A t \in Tasks : \A j, k \in 1..Len(task[t].hist) :
            j < k => task[t].hist[j].adapter < task[t].hist[k].adapter)
    /\ [][\A t \in Tasks : LET u == task[t].url IN
            /\ Lookup(t) /\ u \in DOMAIN cache /\ now < cache[u].expires_at
                => /\ task'[t].pc = "done" /\ task'[t].via = "cache"
                   /\ task'[t].result = cache[u].result
                   /\ task'[t].hist = <<>>
                   /\ cache' = cache /\ sem' = sem /\ waiters' = waiters
            /\ Lookup(t) /\ u \in DOMAIN cache /\ now >= cache[u].expires_at
                => /\ task'[t].via # "cache"
                   /\ \/ u \notin DOMAIN cache'
                      \/ Returns(t)
            /\ Returns(t)
                => /\ u \in DOMAIN cache'
                   /\ cache'[u] = CacheEntry(now + config.per_run_cache_ttl_s,
                                             task'[t].result)]_vars
    /\ [][\A u \in DOMAIN cache :
            (u \notin DOMAIN cache' \/ cache'[u] # cache[u])
                => \E t \in Tasks :
                      /\ task[t].url = u
                      /\ \/ Returns(t)
                         \/ Lookup(t) /\ now >= cache[u].expires_at]_vars

\* a call was answered from the cache with the result another call stored,
\* and an entry has outlived its deadline
C2_Witness ==
    \E t, w \in Tasks :
        /\ task[t].pc = "done" /\ task[t].via = "cache"
        /\ Walked(w) /\ task[w].url = task[t].url
        /\ task[t].result = task[w].result
        /\ now >= task[w].deadline

\* the retry loops of call t that have ended, oldest first
Loops(t) == {task[t].hist[k] : k \in 1..Len(task[t].hist)}

\* C3 as stated: a retry loop whose every attempt failed made exactly
\* max_retries + 1 attempts, and slept retry_backoff_s * 2^(k-1) before
\* its k-th retry, k = 1..max_retries, and at no other time.
C3_RetriesAsStated ==
    \A t \in Tasks : \A l \in Loops(t) :
        ~l.result.ok =>
            /\ l.attempts = config.max_retries + 1
            /\ l.sleeps = [k \in 1..config.max_retries |->
                              config.retry_backoff_s * (2 ^ (k - 1))]

\* C3 amended: the number of attempts is max_retries + 1 for
\* max_retries >= 0 and 1 for a negative max_retries; the waits are as
\* stated, one before each retry.
C3_Retries ==
    \A t \in Tasks : \A l \in Loops(t) :
        ~l.result.ok =>
            LET retries == IF config.max_retries >= 0 THEN config.max_retries ELSE 0 IN
            /\ l.attempts = retries + 1
            /\ l.sleeps = [k \in 1..retries |-> config.retry_backoff_s * (2 ^ (k - 1))]

\* a loop of three failed attempts with its two waits, the second twice the first
C3_Witness ==
    \E t \in Tasks : \E l \in Loops(t) :
        /\ ~l.result.ok /\ config.max_retries = 2
        /\ l.attempts = 3 /\ Len(l.sleeps) = 2
        /\ l.sleeps[2] = 2 * l.sleeps[1]

\* C4: scrape_question_sources never raises, and every failed result it
\* returns carries an error text.
C4_NeverRaises ==
    /\ \A b \in Batches : batch[b].state # "raised"
    /\ \A t \in Tasks : task[t].pc # "raised"
    /\ \A b \in Batches : \A i \in 1..Len(batch[b].results) :
          ~batch[b].results[i].ok => Truthy(batch[b].results[i].error)

\* C5: a batch returns one result per extracted URL, the i-th for the i-th
\* URL, and is never aborted by one of its URLs.
C5_OneResultPerUrl ==
    \A b \in Batches :
        /\ batch[b].state # "raised"
        /\ batch[b].state = "returned" =>
              /\ Len(batch[b].results) = Len(batch[b].urls)
              /\ \A i \in 1..Len(batch[b].urls) :
                    batch[b].results[i].url = batch[b].urls[i]

BuiltinAdapters ==
    {WikipediaAdapter, JsonApiAdapter, CsvAdapter, StaticHtmlAdapter, BrowserAdapter}

\* C6: no fetch of a built-in adapter ends by raising to its caller.
C6_BuiltinFetchNeverRaises ==
    \A t \in Tasks :
        task[t].pc = "sleeping" /\ adapters[task[t].idx] \in BuiltinAdapters
            => task[t].out # "raise"

\* C7: only adapters whose can_handle is true are fetched; a retry loop
\* that yields ok with a signal ends the walk and its result is the one
\* returned; a successful result returned by a walk comes from the first
\* capable adapter, in chain order, whose loop yielded such a result.
C7_FirstSuccess ==
    \A t \in Tasks :
        LET h == task[t].hist
            u == task[t].url
        IN /\ \A k \in 1..Len(h) : h[k].adapter \in Capable(u)
           /\ task[t].pc \in {"fetching", "sleeping"} =>
                 /\ task[t].idx \in Capable(u)
                 /\ \A k \in 1..Len(h) : h[k].adapter < task[t].idx
           /\ \A k \in 1..Len(h) :
                 Accepted(h[k].result) =>
                     /\ k = Len(h)
                     /\ task[t].pc = "done"
                     /\ task[t].result = h[k].result
           /\ Walked(t) /\ task[t].result.ok =>
                 /\ h # <<>>
                 /\ task[t].result = h[Len(h)].result
                 /\ Accepted(task[t].result)
                 /\ \A i \in Capable(u) :
                       i < h[Len(h)].adapter =>
                           \E k \in 1..(Len(h) - 1) :
                               h[k].adapter = i /\ ~Accepted(h[k].result)

\* a walk that skipped an adapter that cannot handle the URL, exhausted a
\* capable one and returned the success of a later one, not the last
C7_Witness ==
    \E t \in Tasks :
        /\ Walked(t) /\ task[t].result.ok
        /\ Len(task[t].hist) >= 2
        /\ \E i \in 1..Len(adapters) :
              i < task[t].hist[1].adapter /\ i \notin Capable(task[t].url)
        /\ task[t].hist[Len(task[t].hist)].adapter < Len(adapters)

\* C8 as stated: the walk leaves an adapter without an accepted result only
\* after max_retries + 1 attempts of it.
C8_AdvanceAfterBudgetAsStated ==
    \A t \in Tasks : \A l \in Loops(t) :
        ~Accepted(l.result) => l.attempts = config.max_retries + 1

\* C8 amended: the walk leaves an adapter without an accepted result only
\* after every one of its max_retries + 1 attempts (1 attempt for a negative
\* max_retries) has failed, or after an attempt of it has returned ok = true
\* with no signal, which ends its retry loop at once.
C8_AdvanceAfterLoop ==
    \A t \in Tasks : \A l \in Loops(t) :
        ~Accepted(l.result) =>
            \/ /\ ~l.result.ok
               /\ l.attempts = (IF config.max_retries >= 0 THEN config.max_retries ELSE 0) + 1
            \/ /\ l.result.ok /\ l.result.signals = <<>>
               /\ l.attempts <= (IF config.max_retries >= 0 THEN config.max_retries ELSE 0) + 1

\* the walk has moved on to a second adapter after three failed attempts
\* of the first
C8_Witness ==
    \E t \in Tasks :
        /\ task[t].pc = "fetching"
        /\ Len(task[t].hist) = 1
        /\ ~task[t].hist[1].result.ok
        /\ task[t].hist[1].attempts = 3

\* C9: when can_handle returns false for every adapter of the chain, the
\* call never fetches or sleeps, and it returns the failed result with no
\* signal and the error "No adapter accepted this URL.", which it stores in
\* the cache with the deadline now + TTL.
C9_NoAdapter ==
    /\ [](\A t \in Tasks :
            task[t].pc # "idle" /\ AllReturn(task[t].url) /\ Capable(task[t].url) = {}
                => /\ task[t].pc \notin {"fetching", "sleeping", "raised"}
                   /\ task[t].hist = <<>>
                   /\ Walked(t) =>
                         task[t].result =
                             [url |-> task[t].url, ok |-> FALSE, signals |-> <<>>,
                              error |-> "No adapter accepted this URL."])
    /\ [][\A t \in Tasks :
            Returns(t) /\ AllReturn(task[t].url) /\ Capable(task[t].url) = {}
                => /\ task[t].url \in DOMAIN cache'
                   /\ cache'[task[t].url] =
                         [expires_at |-> now + config.per_run_cache_ttl_s,
                          result |-> task'[t].result]]_vars

\* a call returned from a walk over a chain none of whose adapters handles its URL
C9_Witness ==
    \E t \in Tasks :
        /\ Walked(t) /\ AllReturn(task[t].url) /\ Capable(task[t].url) = {}
        /\ adapters # <<>>
        /\ task[t].url \in DOMAIN cache

\* C10: a walk that tried at least one adapter and accepted none returns a
\* failed result with no signal; if a retry loop of the walk reported an
\* error text, the error returned is that of the last loop that did; and
\* the error of a loop whose attempts all failed is the adapter's name,
\* ": ", and the last error text of the loop.
C10_LastError ==
    \A t \in Tasks :
        LET h == task[t].hist
            reported == {k \in 1..Len(h) : Truthy(h[k].result.error)}
        IN /\ \A k \in 1..Len(h) :
                 ~h[k].result.ok =>
                     h[k].result.error = adapters[h[k].adapter] \o ": " \o h[k].last_error
           /\ Walked(t) /\ h # <<>> /\ ~Accepted(h[Len(h)].result) =>
                 /\ ~task[t].result.ok
                 /\ task[t].result.signals = <<>>
                 /\ reported # {} =>
                       task[t].result.error = h[SetMax(reported)].result.error

\* a failed walk over two adapters that reported different errors
C10_Witness ==
    \E t \in Tasks :
        LET h == task[t].hist IN
        /\ Walked(t) /\ ~task[t].result.ok /\ Len(h) >= 2
        /\ Truthy(h[1].result.error) /\ Truthy(h[Len(h)].result.error)
        /\ h[Len(h)].result.error # h[1].result.error
        /\ task[t].result.error = h[Len(h)].result.error

\* the call is past its cache lookup and has not returned
InProgress(t) == task[t].pc \in {"waiting", "admitted", "fetching", "sleeping"}

\* C11 as stated: the failed result a call returned from its walk is what
\* every scrape_url of the same URL that starts before the deadline of the
\* entry written for it is answered with.
C11_FailedResultServedUntilDeadline ==
    \A w \in Tasks :
        Walked(w) /\ ~task[w].result.ok /\ now < task[w].deadline =>
            /\ CacheHit(cache, task[w].url, now)
            /\ cache[task[w].url].result = task[w].result

\* C11 amended: a walk that ends in a failed result stores it with the
\* deadline now + TTL; a call that starts while a failed result is stored
\* for its URL, strictly before the stored deadline, returns the stored
\* result with no fetch and leaves the cache as it is; and a stored failed
\* result is replaced before its deadline only by the store of a call for
\* the same URL that was already past its own cache lookup.
C11_FailureCached ==
    /\ [][\A t \in Tasks : LET u == task[t].url IN
            /\ Returns(t) /\ ~task'[t].result.ok
                => /\ u \in DOMAIN cache'
                   /\ cache'[u] = CacheEntry(now + config.per_run_cache_ttl_s,
                                             task'[t].result)
            /\ Lookup(t) /\ u \in DOMAIN cache /\ ~cache[u].result.ok
                         /\ now < cache[u].expires_at
                => /\ task'[t].pc = "done" /\ task'[t].via = "cache"
                   /\ task'[t].result = cache[u].result
                   /\ task'[t].hist = <<>>
                   /\ cache' = cache]_vars
    /\ [][\A u \in DOMAIN cache :
            /\ ~cache[u].result.ok /\ now < cache[u].expires_at
            /\ u \notin DOMAIN cache' \/ cache'[u] # cache[u]
            => \E t \in Tasks :
                  task[t].url = u /\ InProgress(t) /\ Returns(t)]_vars

\* a call was answered from the cache with the failed result of the walk
\* of an earlier call, and fetched nothing
C11_Witness ==
    \E t, w \in Tasks :
        /\ task[t].pc = "done" /\ task[t].via = "cache" /\ task[t].hist = <<>>
        /\ ~task[t].result.ok
        /\ Walked(w) /\ task[w].url = task[t].url /\ task[w].hist # <<>>
        /\ task[w].result = task[t].result

\* C12: a cache lookup for a URL returns the stored result iff an entry
\* for the URL exists and the time is strictly less than its deadline, which
\* is the time of the write + per_run_cache_ttl_s; at or after the deadline
\* the lookup is a miss and removes the entry, so that an expired entry is
\* never returned.
C12_LookupStrictlyBeforeDeadline ==
    /\ [](\A u \in AllUrls :
            /\ CacheHit(cache, u, now) <=>
                   IF u \in DOMAIN cache THEN now < cache[u].expires_at ELSE FALSE
            /\ u \in DOMAIN AfterLookup(cache, u, now) <=>
                   IF u \in DOMAIN cache THEN now < cache[u].expires_at ELSE FALSE)
    /\ [][\A t \in Tasks : LET u == task[t].url IN
            Lookup(t) =>
                /\ task'[t].via = "cache" <=>
                       IF u \in DOMAIN cache THEN now < cache[u].expires_at ELSE FALSE
                /\ task'[t].via = "cache" => task'[t].result = cache[u].result
                /\ (IF u \in DOMAIN cache THEN now >= cache[u].expires_at ELSE FALSE)
                       => \/ u \notin DOMAIN cache'
                          \/ /\ Returns(t)
                             /\ cache'[u].result = task'[t].result]_vars
    /\ [][\A u \in DOMAIN cache' :
            (IF u \in DOMAIN cache THEN cache'[u] # cache[u] ELSE TRUE)
                => cache'[u].expires_at = now + config.per_run_cache_ttl_s]_vars

\* a lookup at the deadline of the entry an earlier call stored has removed
\* the entry, and the call that made it is fetching
C12_Witness ==
    \E t, w \in Tasks :
        /\ Walked(w) /\ now >= task[w].deadline
        /\ task[t].url = task[w].url /\ task[t].pc = "fetching"
        /\ task[t].url \notin DOMAIN cache

\* C13: a scrape_url call that finds a fresh entry returns in the step of
\* its lookup whatever the state of the gate, leaves the free slots and the
\* queue of the gate as they are and every other call where it is; it has
\* never been in the queue or inside the gate.
C13_HitBypassesGate ==
    /\ [](\A t \in Tasks :
            task[t].pc = "done" /\ task[t].via = "cache" =>
                /\ task[t].hist = <<>>
                /\ \A k \in 1..Len(waiters) : waiters[k] # t)
    /\ [][\A t \in Tasks : LET u == task[t].url IN
            Lookup(t) /\ (IF u \in DOMAIN cache THEN now < cache[u].expires_at ELSE FALSE)
                => /\ task'[t].pc = "done" /\ task'[t].via = "cache"
                   /\ sem' = sem /\ waiters' = waiters
                   /\ \A o \in Tasks \ {t} : task'[o] = task[o]]_vars

\* A call was answered from the cache while every slot was held: call o
\* holds a slot handed to it by the release of w, the only call that has
\* left the gate, in the step in which w stored the entry that answered t.
C13_Witness ==
    \E t, w, o \in Tasks :
        /\ task[t].pc = "done" /\ task[t].via = "cache"
        /\ Walked(w) /\ task[w].url = task[t].url
        /\ {x \in Tasks : Walked(x) \/ task[x].pc = "raised"} = {w}
        /\ task[o].pc = "admitted"
        /\ sem = 0 /\ Cardinality(Inside) = config.max_parallel_fetches

\* the least position of x in the list c, or 0
RECURSIVE FirstAt(_, _, _)
FirstAt(c, x, i) ==
    IF i > Len(c) THEN 0 ELSE IF c[i] = x THEN i ELSE FirstAt(c, x, i + 1)

\* the list c with every trailing . , ; : ! ? taken off each element
Stripped(c) == [i \in 1..Len(c) |-> _clean_url(c[i])]

\* C14: for every text, extract_resolution_urls returns a list without two
\* equal elements, holding exactly the URLs of the collection order
\* (markdown-link targets, then bare tokens), each at the rank of its first
\* occurrence there, none ending with one of . , ; : ! ?
C14_UniqueFirstSeenStripped ==
    ret.called =>
        LET c == Stripped(Collected(arg))
            r == ret.value
        IN
        /\ \A i, j \in 1..Len(r) : i # j => r[i] # r[j]
        /\ \A i \in 1..Len(r) : FirstAt(c, r[i], 1) > 0
        /\ \A k \in 1..Len(c) : FirstAt(r, c[k], 1) > 0
        /\ \A i, j \in 1..Len(r) :
              i < j => FirstAt(c, r[i], 1) < FirstAt(c, r[j], 1)
        /\ \A i \in 1..Len(r) :
              /\ r[i] # <<>>
              /\ r[i][Len(r[i])] \notin {".", ",", ";", ":", "!", "?"}

\* a text with a bare URL before a markdown link: the link target comes
\* first in the result, a repeated URL appears once, and punctuation at the
\* end of a token is gone
C14_Witness ==
    /\ ret.called
    /\ LET raw == Collected(arg)
           r == ret.value
       IN
       /\ Len(r) = 2
       /\ Len(raw) = 3
       /\ \E k \in 1..Len(raw) : raw[k] # _clean_url(raw[k])
       /\ Len(MarkdownFindall(arg, 1)) = 1
       /\ _clean_url(MarkdownFindall(arg, 1)[1]) = r[1]
       /\ PlainMatch(arg, 1).last # 0

\* C15: the tag classify_url returns for a URL names the first adapter of
\* the default chain whose can_handle is true for it: wikipedia for the
\* Wikipedia adapter, json_api for the JSON API adapter, csv for the CSV
\* adapter, and xml, pdf or html exactly for the Static HTML adapter; also
\* for a query that carries format=json in upper case.
C15_TagNamesFirstCapableAdapter ==
    ret.called /\ ~arg.raises =>
        LET chosen == choose_adapter(adapters, arg, 1) IN
        /\ ret.value = "wikipedia" <=> chosen = WikipediaAdapter
        /\ ret.value = "json_api" <=> chosen = JsonApiAdapter
        /\ ret.value = "csv" <=> chosen = CsvAdapter
        /\ ret.value \in {"xml", "pdf", "html"} <=> chosen = StaticHtmlAdapter

\* the last token of the URL as written: of its query if it has one, else
\* of its path, else of its host
LastToken(p) ==
    LET whole == p.netloc \o p.path \o p.query IN whole[Len(whole)]

\* C16: classify_url returns "csv" for every URL that ends with ".csv",
\* whatever its host and whatever else its path contains.
C16_CsvWhateverTheHost ==
    ret.called /\ ~arg.raises /\ LastToken(arg) = ".csv" => ret.value = "csv"

\* C17: a ResolutionScraper built without an explicit adapter list holds
\* the chain Wikipedia, JSON API, CSV, Static HTML in that order, followed
\* by Browser as its last element iff use_browser_fallback is true; and no
\* operation reorders or extends the chain of an instance.
C17_FixedChain ==
    /\ [](given = <<>> =>
            adapters = IF config.use_browser_fallback
                       THEN <<"wikipedia_api", "json_api", "csv", "html_static",
                              "browser_playwright">>
                       ELSE <<"wikipedia_api", "json_api", "csv", "html_static">>)
    /\ [][adapters' = adapters]_vars

\* an instance built without an adapter list and with the browser fallback
\* enabled has walked its chain down to the browser adapter and returned
C17_Witness ==
    /\ given = <<>> /\ config.use_browser_fallback
    /\ Len(adapters) = 5
    /\ \E t \in Tasks :
          /\ Walked(t)
          /\ \E k \in 1..Len(task[t].hist) : task[t].hist[k].adapter = 5

\* The children of a traversed node as the specification orders them: of
\* an object, the values of the keys value, count, total, articles, result,
\* latest, data that it has, in that order, then those of its other keys in
\* original order; of an array, its elements in order, the first `width`
\* of them only if width > 0.
Kids(entry, width) ==
    LET n == entry.node
        preferred == <<"value", "count", "total", "articles", "result", "latest", "data">>
        named == SelectSeq([j \in 1..Len(preferred) |-> PositionOf(n, preferred[j])],
                           LAMBDA p : p # 0)
        others == SelectSeq(Positions(n),
                            LAMBDA i : \A j \in 1..Len(preferred) : n.keys[i] # preferred[j])
        order == named \o others
        shown == IF width > 0 /\ Len(n.items) > width THEN width ELSE Len(n.items)
    IN IF n.type = "object"
       THEN [i \in 1..Len(order) |->
                [path |-> entry.path \o "." \o n.keys[order[i]], node |-> n.items[order[i]]]]
       ELSE IF n.type = "array"
       THEN [i \in 1..shown |->
                [path |-> entry.path \o "[" \o ToString(i - 1) \o "]", node |-> n.items[i]]]
       ELSE <<>>

\* the children of the nodes of a level, level order kept
RECURSIVE KidsOfAll(_, _)
KidsOfAll(parents, width) ==
    IF parents = <<>> THEN <<>>
    ELSE Kids(Head(parents), width) \o KidsOfAll(Tail(parents), width)

\* the breadth-first traversal from a level on: the level, then the next
RECURSIVE Traversal(_, _)
Traversal(level, width) ==
    IF level = <<>> THEN <<>>
    ELSE level \o Traversal(
             KidsOfAll(SelectSeq(level, LAMBDA e : e.node.items # <<>>), width), width)

BreadthFirst(payload, width) == Traversal(<<[path |-> "$", node |-> payload]>>, width)

\* the payload has at most 2000 nodes and no array of more than 20 elements
WithinLimits(payload) ==
    /\ Len(BreadthFirst(payload, 0)) <= 2000
    /\ BreadthFirst(payload, 0) = BreadthFirst(payload, 20)

\* the positions of the non-boolean numbers in a traversal
Numbers(order) == {i \in 1..Len(order) : order[i].node.type = "number"}

SetMin(S) == CHOOSE x \in S : \A y \in S : x <= y

\* C18: _extract_numeric_value returns the first non-boolean number of the
\* breadth-first traversal in which the children of an object for the keys
\* value, count, total, articles, result, latest, data come before those of
\* its other keys, with its path (for a payload within the limits on nodes
\* and array elements); for {"other": 5, "total": 9} it returns 9 with the
\* path $.total; and what it returns is never a boolean.
C18_FirstNumberBreadthFirst ==
    ret.called =>
        LET e == ret.value.extracted
            order == BreadthFirst(arg, 0)
        IN /\ WithinLimits(arg) =>
                 /\ e.found <=> Numbers(order) # {}
                 /\ e.found =>
                       /\ e.path = order[SetMin(Numbers(order))].path
                       /\ e.value = order[SetMin(Numbers(order))].node.v
           /\ arg = JObject(<<"other", "total">>, <<JNumber(5), JNumber(9)>>) =>
                 e.found /\ e.value = 9 /\ e.path = "$.total"
           /\ e.found => e.type = "number"

\* the call on {"other": 5, "total": 9} has returned the value of total
C18_Witness ==
    /\ ret.called
    /\ arg = JObject(<<"other", "total">>, <<JNumber(5), JNumber(9)>>)
    /\ ret.value.extracted.path = "$.total"

\* C19: _extract_numeric_value takes at most 2000 nodes from its queue,
\* those of the breadth-first traversal that looks at the first 20 elements
\* of every array, in its order, and never an array element of index 20 or
\* more; it reports no value exactly when those nodes hold no non-boolean
\* number, whatever lies beyond them, and the fetch then fails with
\* "No numeric value found in JSON payload."
C19_NodeAndBreadthLimits ==
    ret.called =>
        LET e == ret.value.extracted
            all == BreadthFirst(arg, 20)
            visits == SubSeq(all, 1, IF Len(all) > 2000 THEN 2000 ELSE Len(all))
        IN /\ e.visited <= 2000
           /\ Len(e.taken) = e.visited
           /\ e.visited <= Len(visits)
           /\ \A i \in 1..Len(e.taken) :
                 /\ e.taken[i].path = visits[i].path
                 /\ e.taken[i].index < 20
           /\ ~e.found <=> Numbers(visits) = {}
           /\ ~e.found =>
                 /\ e.visited = Len(visits)
                 /\ ret.value.result =
                       [url |-> UrlApi, ok |-> FALSE, signals |-> <<>>,
                        error |-> "No numeric value found in JSON payload."]

\* 2000 nodes were taken and no value reported, the payload holding a
\* number as its 2001st node
C19_Witness ==
    /\ ret.called
    /\ ~ret.value.extracted.found
    /\ ret.value.extracted.visited = 2000
    /\ Numbers(BreadthFirst(arg, 0)) = {2001}

(* ------------------------ CSV column selection -------------------------- *)
\* A row of csv.DictReader is a list of columns [name, cell] of distinct
\* names, in the order of the header. A name is a sequence of tokens, the
\* words of numeric_priority being tokens; a cell is None (a row shorter
\* than the header) or a text, a sequence of characters.
NoneCell == [none |-> TRUE, text |-> <<>>]
Cell(text) == [none |-> FALSE, text |-> text]

numeric_priority == <<"count", "total", "value", "articles", "cases">>

Digits == {"0", "3", "7"}
DigitValue(c) == CASE c = "0" -> 0 [] c = "3" -> 3 [] c = "7" -> 7

\* str.strip
RECURSIVE Strip(_)
Strip(s) ==
    IF s = <<>> THEN s
    ELSE IF Head(s) \in Whitespace THEN Strip(Tail(s))
    ELSE IF s[Len(s)] \in Whitespace THEN Strip(SubSeq(s, 1, Len(s) - 1))
    ELSE s

\* .replace(",", "")
RemoveCommas(s) == SelectSeq(s, LAMBDA c : c # ",")

\* the number a sequence of digits writes
RECURSIVE DigitsValue(_)
DigitsValue(s) ==
    IF s = <<>> THEN 0
    ELSE 10 * DigitsValue(SubSeq(s, 1, Len(s) - 1)) + DigitValue(s[Len(s)])

\* a sequence of digits without its trailing zeros
RECURSIVE SignificantDigits(_)
SignificantDigits(s) ==
    IF s # <<>> /\ s[Len(s)] = "0" THEN SignificantDigits(SubSeq(s, 1, Len(s) - 1))
    ELSE s

NoNumber == [parsed |-> FALSE, whole |-> 0, frac |-> <<>>]
\* a number: its integer part and the digits of its fraction; it is an int
\* when the fraction is empty (int(value) if value.is_integer())
Number(whole, frac) == [parsed |-> TRUE, whole |-> whole, frac |-> SignificantDigits(frac)]

\* float(s) for a text of digits, points, spaces and letters: it strips
\* the whitespace around and reads digits, digits "." digits with one of
\* the two sides possibly empty; anything else is a ValueError (NoNumber).
Float(s) ==
    LET t == Strip(s)
        point == IndexOf(t, {"."}, 1)
        whole == IF point = 0 THEN t ELSE SubSeq(t, 1, point - 1)
        frac == IF point = 0 THEN <<>> ELSE SubSeq(t, point + 1, Len(t))
    IN IF /\ \A i \in 1..Len(whole) : whole[i] \in Digits
          /\ \A i \in 1..Len(frac) : frac[i] \in Digits
          /\ Len(whole) + Len(frac) > 0
       THEN Number(DigitsValue(whole), frac)
       ELSE NoNumber

_parse_number(text) ==
    IF text.none THEN NoNumber
    ELSE LET cleaned == RemoveCommas(Strip(text.text)) IN
         IF cleaned = <<>> THEN NoNumber ELSE Float(cleaned)

\* any(p in k.lower() for p in self.numeric_priority)
MatchesPriority(k) ==
    \E j \in 1..Len(numeric_priority) : Contains(Lower(k), <<numeric_priority[j]>>)

NotSelected == [found |-> FALSE, key |-> <<>>, value |-> NoNumber]
Selected(key, value) == [found |-> TRUE, key |-> key, value |-> value]

\* the first column of a list whose cell parses
RECURSIVE FirstParsed(_)
FirstParsed(columns) ==
    IF columns = <<>> THEN NotSelected
    ELSE IF _parse_number(Head(columns).cell).parsed
    THEN Selected(Head(columns).name, _parse_number(Head(columns).cell))
    ELSE FirstParsed(Tail(columns))

\* The columns whose name holds a word of numeric_priority, in the order
\* of the row, then the others in the order of the row.
_select_numeric_column(row) ==
    LET ordered == SelectSeq(row, LAMBDA c : MatchesPriority(c.name))
    IN FirstParsed(ordered \o SelectSeq(row, LAMBDA c : ~MatchesPriority(c.name)))

ColumnNames ==
    {<<"cases">>, <<"count">>, <<"Total">>, <<"my", "value">>, <<"articles">>,
     <<"date">>, <<"name">>}
CellChars == {"7", "3", "0", ",", ".", " ", "x"}
RECURSIVE TextsUpTo(_)
TextsUpTo(n) ==
    IF n = 0 THEN {<<>>}
    ELSE TextsUpTo(n - 1) \cup
         {Append(t, c) : t \in {u \in TextsUpTo(n - 1) : Len(u) = n - 1}, c \in CellChars}
\* the cells of the rows of one column, and those of the longer rows
AllCells == {NoneCell} \cup {Cell(t) : t \in TextsUpTo(MaxCell)}
FewCells == {Cell(<<"7">>), Cell(<<"3">>), Cell(<<"x">>), Cell(<<>>)}

\* the row of a list of names and a list of as many cells
Row(names, cells) == [i \in 1..Len(names) |-> [name |-> names[i], cell |-> cells[i]]]

\* a call of _select_numeric_column on the last row, as fetch makes it
CallSelect ==
    /\ ret = NoCall
    /\ ret' = Called(_select_numeric_column(arg))
    /\ UNCHANGED <<config, adapters, sem, waiters, cache, now, task, batch, given, arg>>

InitCsv ==
    /\ Constructed(ScraperConfig(2, 1, 1, 4), <<>>)
    /\ ret = NoCall
    /\ \/ \E name \in ColumnNames, cell \in AllCells : arg = Row(<<name>>, <<cell>>)
       \/ \E k \in 2..MaxColumns :
             \E names \in {u \in UniqueSeqs(ColumnNames, k) : Len(u) = k},
                cells \in [1..k -> FewCells] :
                 arg = Row(names, cells)

NextCsv == CallSelect

SpecCsv == InitCsv /\ [][NextCsv]_vars

\* The columns in the order the specification states: those whose lowered
\* name holds "count", then of the others those that hold "total", then
\* "value", "articles", "cases", each group in the order of the row, then
\* the remaining columns in the order of the row.
RECURSIVE StatedOrder(_, _)
StatedOrder(row, j) ==
    IF j > Len(numeric_priority) THEN row
    ELSE SelectSeq(row, LAMBDA c : Contains(Lower(c.name), <<numeric_priority[j]>>))
         \o StatedOrder(
                SelectSeq(row, LAMBDA c : ~Contains(Lower(c.name), <<numeric_priority[j]>>)),
                j + 1)

\* C20: _select_numeric_column returns the first column whose cell parses
\* as a number among the columns taken in this order: those whose name
\* holds "count" in any letter case, then "total", then "value", then
\* "articles", then "cases", then the other columns in original order; for
\* a row with cases=7 then count=3 it returns count.
C20_ColumnsInPriorityOrder ==
    ret.called => ret.value = FirstParsed(StatedOrder(arg, 1))

(* ------------------------------ CSV fetch ------------------------------- *)
\* A CSV body as csv.reader splits it: the header (<<>> for an empty body)
\* and the records after it, each a list of cell texts; <<>> is a blank
\* line.
\* the key csv.DictReader gives to the cells beyond the header (restkey)
NoneKey == <<None>>
\* the value under that key: the list of those cells
RestCell(rest) == [none |-> FALSE, text |-> rest]

\* the dict csv.DictReader makes of a record: a record shorter than the
\* header is filled with None (restval), the cells of a longer one beyond
\* the header go under the key None
DictRow(header, record) ==
    [i \in 1..Len(header) |->
        [name |-> header[i],
         cell |-> IF i <= Len(record) THEN Cell(record[i]) ELSE NoneCell]]
    \o (IF Len(record) > Len(header)
        THEN <<[name |-> NoneKey,
                cell |-> RestCell(SubSeq(record, Len(header) + 1, Len(record)))]>>
        ELSE <<>>)

\* list(csv.DictReader(...)): blank lines are skipped
DictReader(header, records) ==
    LET data == SelectSeq(records, LAMBDA r : r # <<>>)
    IN [i \in 1..Len(data) |-> DictRow(header, data[i])]

\* str(exc) of the AttributeError of None.lower()
NoneLowerText == "'NoneType' object has no attribute 'lower'"

\* the signal CsvAdapter.fetch builds
CsvSignal(url, column, value, row_index) ==
    [url |-> url, metric |-> <<"csv_">> \o column, value |-> value,
     parser |-> CsvAdapter, confidence |-> "medium",
     raw |-> [row_index |-> row_index, column |-> column]]

\* CsvAdapter.fetch from the parsing of the response text on. The list
\* comprehension of _select_numeric_column calls k.lower() on every key of
\* the row, the key None included, and nothing catches the AttributeError.
CsvTableFetch(url, header, records) ==
    LET rows == DictReader(header, records) IN
    IF rows = <<>> THEN Failure(url, "CSV has no data rows.")
    ELSE LET last_row == rows[Len(rows)]
             selected == _select_numeric_column(last_row)
         IN IF \E i \in 1..Len(last_row) : last_row[i].name = NoneKey
            THEN Raised(NoneLowerText)
            ELSE IF ~selected.found
            THEN Failure(url, "No numeric column found in final CSV row.")
            ELSE Returned(ScrapeResult(url, TRUE,
                     <<CsvSignal(url, selected.key, selected.value, Len(rows) - 1)>>,
                     None))

TableHeaders == {<<<<"total">>>>, <<<<"date">>, <<"total">>>>, <<<<"total">>, <<"cases">>>>}
TableCells == {<<"7">>, <<"3">>, <<"x">>}
\* the records under a header: blank, short, full or one cell too long
RecordsFor(header) == UNION {[1..k -> TableCells] : k \in 0..(Len(header) + 1)}

\* a caller calls CsvAdapter.fetch and the source answers with a CSV body
CallCsvFetch ==
    /\ ret = NoCall
    /\ ret' = Called(CsvTableFetch(UrlCsv, arg.header, arg.records))
    /\ UNCHANGED <<config, adapters, sem, waiters, cache, now, task, batch, given, arg>>

InitCsvFetch ==
    /\ Constructed(ScraperConfig(2, 1, 1, 4), <<>>)
    /\ ret = NoCall
    /\ \/ arg = [header |-> <<>>, records |-> <<>>]
       \/ \E header \in TableHeaders : \E n \in 0..MaxRecords :
             \E recs \in [1..n -> RecordsFor(header)] :
                 arg = [header |-> header, records |-> recs]

NextCsvFetch == CallCsvFetch

SpecCsvFetch == InitCsvFetch /\ [][NextCsvFetch]_vars

\* the lines of the body that are data rows
DataRecords == SelectSeq(arg.records, LAMBDA r : r # <<>>)

\* the positions of a record whose cell parses as a number
NumericCells(record) ==
    {i \in 1..Len(record) : _parse_number(Cell(record[i])).parsed}

\* C21: CsvAdapter.fetch fails with "CSV has no data rows." when the body
\* has no data row; otherwise what it returns is what it returns for the
\* body with the last data row alone, the same metric and value; it returns
\* a failed result when no cell of the last row parses as a number,
\* whatever the earlier rows hold; and when the only cell of the last row
\* that parses is under the column total, the metric is csv_total with the
\* number of that cell.
C21_LastRowOnly ==
    ret.called =>
        LET o == ret.value
            last == DataRecords[Len(DataRecords)]
            alone == CsvTableFetch(UrlCsv, arg.header, <<last>>)
        IN /\ DataRecords = <<>> => o = Failure(UrlCsv, "CSV has no data rows.")
           /\ DataRecords # <<>> =>
                 /\ o.raised = alone.raised
                 /\ o.result.ok = alone.result.ok
                 /\ o.result.error = alone.result.error
                 /\ o.result.ok =>
                       /\ o.result.signals[1].metric = alone.result.signals[1].metric
                       /\ o.result.signals[1].value = alone.result.signals[1].value
                 /\ NumericCells(last) = {} =>
                       /\ ~o.raised /\ ~o.result.ok
                       /\ o.result.signals = <<>> /\ Truthy(o.result.error)
                 /\ \A i \in 1..Len(arg.header) :
                       NumericCells(last) = {i} /\ arg.header[i] = <<"total">> =>
                           /\ ~o.raised /\ o.result.ok
                           /\ Len(o.result.signals) = 1
                           /\ o.result.signals[1].metric = <<"csv_", "total">>
                           /\ o.result.signals[1].value = _parse_number(Cell(last[i]))

(* --------------------------- the snapshot text --------------------------- *)
_confidence_rank(level) ==
    IF level = "high" THEN 3 ELSE IF level = "medium" THEN 2 ELSE 1

RECURSIVE InsertBeforeEqual(_, _)
\* (variant: a signal goes before the signals of its own rank)
InsertBeforeEqual(ordered, signal) ==
    IF ordered = <<>> THEN <<signal>>
    ELSE IF _confidence_rank(Head(ordered).confidence) > _confidence_rank(signal.confidence)
    THEN <<Head(ordered)>> \o InsertBeforeEqual(Tail(ordered), signal)
    ELSE <<signal>> \o ordered

RECURSIVE Insert(_, _)
\* a signal takes its place in a list sorted by descending rank: after the
\* signals of a higher or of its own rank (the sort is stable, also with
\* reverse=True)
Insert(ordered, signal) ==
    IF ordered = <<>> THEN <<signal>>
    ELSE IF _confidence_rank(Head(ordered).confidence) >= _confidence_rank(signal.confidence)
    THEN <<Head(ordered)>> \o Insert(Tail(ordered), signal)
    ELSE <<signal>> \o ordered

RECURSIVE Sorted(_)
\* sorted(signals, key=lambda s: _confidence_rank(s.confidence), reverse=True)
Sorted(signals) ==
    IF signals = <<>> THEN <<>>
    ELSE Insert(Sorted(SubSeq(signals, 1, Len(signals) - 1)), signals[Len(signals)])

\* the slice ordered[:max_items]: for a negative max_items, all but the last
\* -max_items elements
SliceTo(ordered, max_items) ==
    LET stop == IF max_items >= 0
                THEN (IF max_items < Len(ordered) THEN max_items ELSE Len(ordered))
                ELSE (IF Len(ordered) + max_items > 0 THEN Len(ordered) + max_items ELSE 0)
    IN SubSeq(ordered, 1, stop)

\* the line of a signal
SnapshotLine(signal) ==
    <<"- [", signal.confidence, "] ", signal.metric, " = ", signal.value,
      " (as_of=", signal.as_of_utc, ", parser=", signal.parser, ", url=", signal.url, ")">>

NoSignalsText == <<"No structured resolution-source signals extracted.">>

\* format_resolution_snapshot; the text it returns as the list of its lines
format_resolution_snapshot(signals, max_items) ==
    IF signals = <<>> THEN <<NoSignalsText>>
    ELSE LET chosen == SliceTo(Sorted(signals), max_items)
         IN [i \in 1..Len(chosen) |-> SnapshotLine(chosen[i])]

SnapshotSignals ==
    {[url |-> UrlCsv, metric |-> m, value |-> "7", as_of_utc |-> "t",
      parser |-> CsvAdapter, confidence |-> c] :
        m \in {"a", "b"}, c \in {"high", "medium", "low"}}
ItemLimits == (0 - 2)..(MaxSignals + 1)

\* a caller calls format_resolution_snapshot
CallSnapshot ==
    /\ ret = NoCall
    /\ ret' = Called(format_resolution_snapshot(arg.signals, arg.max_items))
    /\ UNCHANGED <<config, adapters, sem, waiters, cache, now, task, batch, given, arg>>

InitSnapshot ==
    /\ Constructed(ScraperConfig(2, 1, 1, 4), <<>>)
    /\ ret = NoCall
    /\ \E n \in 0..MaxSignals : \E signals \in [1..n -> SnapshotSignals] :
          \E max_items \in ItemLimits :
              arg = [signals |-> signals, max_items |-> max_items]

NextSnapshot == CallSnapshot

SpecSnapshot == InitSnapshot /\ [][NextSnapshot]_vars

\* the signals of a confidence, in input order
OfConfidence(signals, level) == SelectSeq(signals, LAMBDA g : g.confidence = level)

\* the signals in the stated order: the high ones, then the medium ones,
\* then the low ones, each group in input order
StatedSnapshotOrder(signals) ==
    OfConfidence(signals, "high") \o OfConfidence(signals, "medium")
        \o OfConfidence(signals, "low")

\* the confidence a line shows
LineConfidence(line) == line[2]

\* C22 as stated: format_resolution_snapshot returns the literal for an
\* empty list; for a non-empty list and any max_items it returns at most
\* max_items lines, those of the first max_items signals in the stated
\* order.
C22_SnapshotAsStated ==
    ret.called =>
        LET lines == ret.value
            stated == StatedSnapshotOrder(arg.signals)
        IN /\ arg.signals = <<>> => lines = <<NoSignalsText>>
           /\ arg.signals # <<>> =>
                 /\ Len(lines) <= arg.max_items
                 /\ \A i \in 1..Len(lines) : lines[i] = SnapshotLine(stated[i])

\* C22 amended: as stated for max_items >= 0, the number of lines being
\* the lesser of max_items and the number of signals; for a negative
\* max_items the lines are those of all but the last -max_items signals in
\* the stated order. In both cases every high line precedes every medium
\* line and every medium line every low line.
C22_Snapshot ==
    ret.called =>
        LET lines == ret.value
            stated == StatedSnapshotOrder(arg.signals)
            n == Len(arg.signals)
            m == arg.max_items
        IN /\ arg.signals = <<>> => lines = <<NoSignalsText>>
           /\ arg.signals # <<>> =>
                 /\ m >= 0 => Len(lines) = (IF m < n THEN m ELSE n)
                 /\ m < 0 => Len(lines) = (IF n + m > 0 THEN n + m ELSE 0)
                 /\ \A i \in 1..Len(lines) : lines[i] = SnapshotLine(stated[i])
                 /\ \A i, j \in 1..Len(lines) :
                       i < j => _confidence_rank(LineConfidence(lines[i]))
                                   >= _confidence_rank(LineConfidence(lines[j]))

\* three lines were returned for four signals given low first and high
\* last, two of them of one confidence, and the second of those two is
\* left out
C22_Witness ==
    /\ ret.called
    /\ Len(arg.signals) = 4 /\ arg.max_items = 3 /\ Len(ret.value) = 3
    /\ arg.signals[1].confidence = "low" /\ arg.signals[2].confidence = "low"
    /\ arg.signals[1].metric # arg.signals[2].metric
    /\ arg.signals[3].confidence = "medium" /\ arg.signals[4].confidence = "high"
    /\ ret.value[1] = SnapshotLine(arg.signals[4])
    /\ ret.value[3] = SnapshotLine(arg.signals[1])

(* ------------------------- the question details -------------------------- *)
\* A value of the question_details dict under a key: no such key, None, or
\* a text (a sequence of characters, as for URL extraction).
Absent == [present |-> FALSE, none |-> FALSE, text |-> <<>>]
NoneValue == [present |-> TRUE, none |-> TRUE, text |-> <<>>]
Text(t) == [present |-> TRUE, none |-> FALSE, text |-> t]

\* str(None)
NoneText == <<"N", "o", "n", "e">>

\* str(question_details.get(key, "")): the default is used for a missing
\* key only; a key that is there with the value None gives str(None)
StrGet(question_details, key) ==
    LET v == question_details[key] IN
    IF ~v.present THEN <<>>
    ELSE IF v.none THEN NoneText
    ELSE v.text

\* _question_id: -1 for a missing id, None, or what int() refuses
_question_id(question_details) ==
    LET v == question_details["id"] IN
    IF ~v.present \/ v.none THEN 0 - 1
    ELSE IF v.text # <<>> /\ \A i \in 1..Len(v.text) : v.text[i] \in Digits
    THEN DigitsValue(v.text)
    ELSE 0 - 1

RECURSIVE JoinLines(_)
\* "\n".join(parts)
JoinLines(parts) ==
    IF parts = <<>> THEN <<>>
    ELSE IF Len(parts) = 1 THEN parts[1]
    ELSE parts[1] \o <<"\n">> \o JoinLines(Tail(parts))

\* the text extract_resolution_urls searches: the non-empty parts, joined
JoinedText(resolution_criteria, fine_print, description) ==
    JoinLines(SelectSeq(<<resolution_criteria, fine_print, description>>,
                        LAMBDA part : part # <<>>))

ScrapeRequest(question_id, question_title, question_type, url, resolution_text) ==
    [question_id |-> question_id, question_title |-> question_title,
     question_type |-> question_type, url |-> url,
     resolution_text |-> resolution_text]

_build_request(question_details, url) ==
    ScrapeRequest(_question_id(question_details),
                  StrGet(question_details, "title"),
                  StrGet(question_details, "type"),
                  url,
                  JoinLines(<<StrGet(question_details, "resolution_criteria"),
                              StrGet(question_details, "fine_print"),
                              StrGet(question_details, "description")>>))

\* scrape_question_sources up to asyncio.gather: the URLs it extracts and
\* the requests it builds for them
QuestionRequests(question_details) ==
    LET urls == extract_resolution_urls(
                    JoinedText(StrGet(question_details, "resolution_criteria"),
                               StrGet(question_details, "fine_print"),
                               StrGet(question_details, "description")))
    IN [urls |-> urls,
        requests |-> [i \in 1..Len(urls) |-> _build_request(question_details, urls[i])]]

\* the values of the three text fields, of the title and type, of the id
FieldValues ==
    {Absent, NoneValue, Text(<<>>), Text(<<Scheme, "a">>),
     Text(<<"[", "t", "]", "(", Scheme, "a">>), Text(<<"b", ")", " ", Scheme, "b", ".">>)}
TitleValues == {Absent, NoneValue, Text(<<"q">>)}
IdValues == {Absent, NoneValue, Text(<<"7">>), Text(<<"x">>)}

\* a caller calls scrape_question_sources
CallQuestion ==
    /\ ret = NoCall
    /\ ret' = Called(QuestionRequests(arg))
    /\ UNCHANGED <<config, adapters, sem, waiters, cache, now, task, batch, given, arg>>

InitQuestion ==
    /\ Constructed(ScraperConfig(2, 1, 1, 4), <<>>)
    /\ ret = NoCall
    /\ \E rc, fp, d \in FieldValues, title, type \in TitleValues, id \in IdValues :
          arg = [resolution_criteria |-> rc, fine_print |-> fp, description |-> d,
                 title |-> title, type |-> type, id |-> id]

NextQuestion == CallQuestion

SpecQuestion == InitQuestion /\ [][NextQuestion]_vars

\* the string fields of the question details
StringFields == {"resolution_criteria", "fine_print", "description", "title", "type"}

\* the details with "" in the place of every string field that is absent
\* or None
WithEmptyStrings(question_details) ==
    [key \in DOMAIN question_details |->
        IF key \in StringFields /\ (~question_details[key].present \/ question_details[key].none)
        THEN Text(<<>>)
        ELSE question_details[key]]

\* C23: the URLs extracted from question details and the requests built
\* for them are those of the same details with the empty string in the
\* place of every string field (resolution_criteria, fine_print,
\* description, title, type) that is absent or None.
C23_AbsentOrNoneIsEmpty ==
    ret.called => ret.value = QuestionRequests(WithEmptyStrings(arg))

\* the error text of an attempt: the message of the exception it raised or
\* the error of the result it returned, "" where that is None
TryText(try) == IF try.error = None THEN "" ELSE try.error

\* the attempts of a loop that left an error text behind: those that
\* raised, whatever the message, and those that returned a non-empty error
Reporting(tries) ==
    {k \in 1..Len(tries) :
        tries[k].kind = "raise" \/ (tries[k].kind = "fail" /\ Truthy(tries[k].error))}

\* the last retry loop of call t has ended and the call has not started
\* the attempts of the next: task[t].tries holds the attempts of that loop
LoopEnded(t) ==
    /\ task[t].hist # <<>>
    /\ Walked(t) \/ (task[t].pc = "fetching" /\ task[t].attempt = 0)

LastLoop(t) == task[t].hist[Len(task[t].hist)]

\* C24 as stated: when every attempt of a retry loop failed, the error of
\* the failed result is the adapter's name, ": ", and the error text of the
\* last attempt.
C24_LastAttemptErrorAsStated ==
    \A t \in Tasks :
        LoopEnded(t) /\ ~LastLoop(t).result.ok =>
            LastLoop(t).result.error =
                adapters[LastLoop(t).adapter] \o ": "
                    \o TryText(task[t].tries[Len(task[t].tries)])

\* C24 amended: when every attempt of a retry loop failed, the failed
\* result has no signal and its error is the adapter's name, ": ", and the
\* error text of the last attempt that raised (the message of the
\* exception, also an empty one) or returned a non-empty error; an attempt
\* that returned a failure without error text leaves the text of the
\* attempts before it, and "Unknown fetch error." stands if no attempt left
\* one.
C24_LastReportedError ==
    \A t \in Tasks :
        LoopEnded(t) /\ ~LastLoop(t).result.ok =>
            LET l == LastLoop(t)
                tries == task[t].tries
            IN /\ Len(tries) = l.attempts
               /\ \A k \in 1..Len(tries) : tries[k].kind # "ok"
               /\ l.result.signals = <<>>
               /\ l.result.error =
                     adapters[l.adapter] \o ": " \o
                         (IF Reporting(tries) = {} THEN "Unknown fetch error."
                          ELSE TryText(tries[SetMax(Reporting(tries))]))

\* a loop of three failed attempts with three different error texts, the
\* last of them an exception, whose message is the one reported
C24_Witness ==
    \E t \in Tasks :
        /\ LoopEnded(t) /\ ~LastLoop(t).result.ok /\ Len(task[t].tries) = 3
        /\ task[t].tries[3].kind = "raise" /\ task[t].tries[2].kind = "fail"
        /\ TryText(task[t].tries[1]) # TryText(task[t].tries[3])
        /\ TryText(task[t].tries[2]) # TryText(task[t].tries[3])
        /\ LastLoop(t).result.error =
              adapters[LastLoop(t).adapter] \o ": " \o task[t].tries[3].error

\* the cache holds for URL u after the step what it held before
SameEntry(u) ==
    /\ u \in DOMAIN cache <=> u \in DOMAIN cache'
    /\ u \in DOMAIN cache => cache'[u] = cache[u]

\* C25: the step in which a call looks up, evicts or stores for its URL
\* leaves the entry of every other URL as it is, result and deadline; no
\* other step changes the cache; and every entry stored under a URL by a
\* walk over the built-in adapters is a result for that URL.
C25_PerKey ==
    /\ [][\A t \in Tasks :
            Lookup(t) \/ Returns(t) =>
                \A u \in AllUrls \ {task[t].url} : SameEntry(u)]_vars
    /\ [][(\A t \in Tasks : ~Lookup(t) /\ ~Returns(t)) => cache' = cache]_vars
    /\ [](\A u \in DOMAIN cache : cache[u].result.url = u)

\* a lookup has evicted the expired entry of one URL while the entry a
\* concurrent call stored for the other URL is still what that call stored
C25_Witness ==
    \E t, w, c \in Tasks :
        /\ Walked(w) /\ task[w].url = UrlHtml /\ now >= task[w].deadline
        /\ task[t].url = UrlHtml /\ task[t].pc = "fetching"
        /\ UrlHtml \notin DOMAIN cache
        /\ Walked(c) /\ task[c].url = UrlCsv /\ task[c].b = task[w].b
        /\ UrlCsv \in DOMAIN cache
        /\ cache[UrlCsv] = CacheEntry(task[c].deadline, task[c].result)

RECURSIVE EndedCalls(_, _)
\* the fetch calls the ended retry loops of a history made of the adapter
\* at chain position i
EndedCalls(h, i) ==
    IF h = <<>> THEN 0
    ELSE (IF Head(h).adapter = i THEN Head(h).attempts ELSE 0) + EndedCalls(Tail(h), i)

\* the fetch calls call t has made so far of the adapter at chain
\* position i, the awaited one included
FetchCalls(t, i) ==
    EndedCalls(task[t].hist, i)
        + (IF task[t].pc \in {"fetching", "sleeping"} /\ task[t].idx = i
           THEN task[t].attempt + 1 ELSE 0)

RECURSIVE SumCalls(_, _)
\* the fetch calls call t has made so far of the adapters at positions 1..n
SumCalls(t, n) == IF n = 0 THEN 0 ELSE FetchCalls(t, n) + SumCalls(t, n - 1)

\* max(0, max_retries) + 1
AttemptBudget == (IF config.max_retries > 0 THEN config.max_retries ELSE 0) + 1

WellFormed(r) ==
    /\ r.ok => r.signals # <<>>
    /\ ~r.ok => r.signals = <<>> /\ Truthy(r.error)

\* C27: every result a scrape_url call has returned, and every result in
\* the cache, from which a later call is served, is a success with at least
\* one signal or a failure with no signal and a non-empty error text; so the
\* list format_scrape_errors reports holds every failed result of a batch.
C27_ResultWellFormed ==
    /\ \A t \in Tasks : task[t].pc = "done" => WellFormed(task[t].result)
    /\ \A u \in DOMAIN cache : WellFormed(cache[u].result)
    /\ \A b \in Batches :
          batch[b].state = "returned" =>
              failed_results(batch[b].results) = SelectSeq(batch[b].results, LAMBDA r : ~r.ok)

\* a failed result returned, cached and reported after an adapter of the
\* walk had answered ok with no signal
C27_Witness ==
    \E t \in Tasks :
        /\ Walked(t) /\ ~task[t].result.ok
        /\ \E l \in Loops(t) : l.result.ok /\ l.result.signals = <<>>
        /\ batch[1].state = "returned"
        /\ failed_results(batch[1].results) = <<task[t].result>>
        /\ cache[task[t].url].result = task[t].result

\* an unexpired result for URL u is in the cache
Cached(u) == u \in DOMAIN cache /\ now < cache[u].expires_at

\* the step in which call t awaits the first fetch of an adapter
BeginsFetch(t) ==
    /\ task'[t].pc = "fetching"
    /\ task[t].pc # "fetching" \/ task'[t].idx # task[t].idx

\* the call is in its adapter walk
Walking(t) == task[t].pc \in {"fetching", "sleeping"}

\* C28 as stated: while an unexpired result for a URL is in the cache no
\* call for that URL begins a fetch, and no two calls for the same URL are
\* in their adapter walks at the same time.
C28_NoFetchWhileCachedAsStated ==
    /\ [][\A t \in Tasks : BeginsFetch(t) => ~Cached(task[t].url)]_vars
    /\ [](\A t, w \in Tasks :
            t # w /\ Walking(t) /\ Walking(w) => task[t].url # task[w].url)

\* C28 amended: a call whose lookup finds an unexpired result for its URL
\* returns it and fetches nothing; and while an unexpired result for a URL
\* is in the cache, a fetch for that URL is begun only by a call that was
\* already past its own lookup, which missed.
C28_NoFetchAfterHit ==
    /\ [][\A t \in Tasks :
            Lookup(t) /\ Cached(task[t].url) =>
                /\ task'[t].pc = "done" /\ task'[t].via = "cache"
                /\ task'[t].hist = <<>>]_vars
    /\ [][\A t \in Tasks :
            BeginsFetch(t) /\ Cached(task[t].url) => InProgress(t)]_vars

\* a call that had waited at the gate fetches for a URL whose unexpired
\* result, stored by the walk of an overlapping call, is in the cache
C28_Witness ==
    \E t, w \in Tasks :
        /\ task[t].pc = "fetching" /\ Cached(task[t].url)
        /\ config.max_parallel_fetches = 1
        /\ Walked(w) /\ task[w].url = task[t].url
        /\ cache[task[t].url].result = task[w].result

\* the call has ended: it has returned, or raised what can_handle raised
Ended(t) == task[t].pc \in {"done", "raised"}

\* C29: under the scheduling of the event loop and with every fetch ending,
\* time and again every call made so far has ended; a call never goes
\* back, and a suspended call leaves the gate only by being admitted, so
\* every suspended call is eventually admitted and every call eventually
\* ends. Every slot is either free or held by a call inside the gate, so
\* that all max_parallel_fetches slots are free when no call is in progress.
C29_EveryCallEnds ==
    /\ []<>(\A t \in Tasks : task[t].pc = "idle" \/ Ended(t))
    /\ [][\A t \in Tasks :
            /\ Ended(t) => task'[t] = task[t]
            /\ task[t].pc = "waiting" /\ task'[t].pc # "waiting" =>
                  task'[t].pc = "admitted"]_vars
    /\ [](sem + Cardinality(Inside) = config.max_parallel_fetches)
    /\ []((\A t \in Tasks : ~InProgress(t)) => sem = config.max_parallel_fetches)

\* the slot a raising call gave back has been handed to a call that waited
C29_Witness ==
    \E r, t \in Tasks :
        /\ task[r].pc = "raised" /\ task[r].b = task[t].b
        /\ task[t].pc = "admitted" /\ waiters = <<t>>
        /\ \A w \in Tasks \ {t} : ~InProgress(w)

\* C30 as stated: a walk returns the error "No adapter accepted this URL."
\* only if no adapter of the chain was capable, so that it fetched nothing;
\* over the default chain it never returns it.
C30_NoAdapterOnlyIfNoneCapableAsStated ==
    \A t \in Tasks :
        Walked(t) /\ task[t].result.error = NoAdapterError =>
            /\ Capable(task[t].url) = {}
            /\ task[t].hist = <<>>
            /\ given # <<>>

\* C30 amended: a walk that accepted no result returns the error "No
\* adapter accepted this URL." exactly if no retry loop of the walk reported
\* an error text: no adapter was capable, or every capable adapter answered
\* ok = true with no signal and no error text; a capable adapter whose
\* attempts all failed, also with no error text, is named in the error; and
\* over the default chain the error is never returned.
C30_NoAdapterIffNoErrorReported ==
    \A t \in Tasks :
        Walked(t) /\ ~task[t].result.ok =>
            /\ task[t].result.error = NoAdapterError <=>
                  \A l \in Loops(t) : l.result.ok /\ ~Truthy(l.result.error)
            /\ \A l \in Loops(t) :
                  ~l.result.ok => Truthy(l.result.error)
            /\ given = <<>> => task[t].result.error # NoAdapterError

\* a capable adapter fetched, answered ok with no signal, and the walk
\* returned "No adapter accepted this URL."
C30_Witness ==
    \E t \in Tasks :
        /\ Walked(t) /\ task[t].result.error = NoAdapterError
        /\ Capable(task[t].url) # {}
        /\ \E l \in Loops(t) : l.result.ok /\ l.result.signals = <<>>

====
